---- MODULE Spec2Model ----
(***************************************************************************)
(* The simulation loop of the dungeon crawler ("Dungeon Crawl 4.py", the   *)
(* variant with biomes, lives, treasure goblins and the save file) as a    *)
(* state machine: one action per call of Game.run's loop body.             *)
(*                                                                         *)
(* Units.  Time is in milliseconds (the source's seconds times 1000),      *)
(* lengths in pixels, speeds in pixels per second.  The dungeon is one row *)
(* of the tile grid, so a position is its x coordinate; everything the     *)
(* source computes from a vector length is computed here from |x1 - x2|.   *)
(* Fractions the source keeps as floats (aura multipliers, the wave scale) *)
(* are exact rationals [n, d]; int() is floor on the non-negative values   *)
(* it is applied to.  random.* calls are choices made by the action        *)
(* (the "rolls" arguments of the operators below).                         *)
(***************************************************************************)
EXTENDS Integers, Sequences, FiniteSets, TLC

\* -------------------------------------------------------------- bounds
\* Frames of the main loop a behaviour runs through.
MaxTicks == 2
\* The largest dmg_min of the sampled minions.
MaxRoll == 21

\* -------------------------------------------------------------- CONFIG
TILE == 48
WALL == 1
FLOOR == 0
PLAYER_SPEED == 340
PLAYER_HP == 140
BASIC_CD == 180
PROJECTILE_SPEED == 760
BASIC_RADIUS == 6
BASIC_PIERCE == 1
IFRAME_TIME == 250
POTION_HEAL == 50
ENEMY_BASE_HP == 40
ENEMY_BASE_DMG == <<4, 8>>
ENEMY_SPEED == 150
SPAWN_INTERVAL == 6000
PACK_SIZE_RANGE == <<3, 6>>
AURA_RADIUS == 300
BOSS_HP == 600
BOSS_DMG == <<8, 14>>
BOSS_SHOT_CD == <<1000, 1600>>
BOSS_PROJ_SPEED == 480
DMG_BOOST_MULT == 160
DMG_BOOST_TIME == 8000
SHIELD_POINTS == 70
GOLD_DROP == <<3, 12>>
CHEST_HP == 3
CRATE_HP == 1
CRATE_EXPLODE_DMG == <<4, 10>>
CRATE_EXPLODE_RADIUS == 80
INFUSION_DURATION == 15000
INFUSION_TYPES == {"fire", "ice", "lightning"}
GOBLIN_DESPAWN_TIME == 18000
GOBLIN_LOOT_INTERVAL == 600
STAT_POINTS_PER_LEVEL == 5
BIOMES == <<"crypt", "cave", "firepit", "icecavern", "swamp">>
PORTALS_PER_LEVEL == 2

\* Percentages: 0.9 is 90.
DIFFICULTY ==
    [Easy   |-> [enemy_hp |-> 90,  enemy_dmg |-> 80,  enemy_speed |-> 95,  max_enemies |-> 6],
     Normal |-> [enemy_hp |-> 100, enemy_dmg |-> 100, enemy_speed |-> 100, max_enemies |-> 7],
     Hard   |-> [enemy_hp |-> 120, enemy_dmg |-> 125, enemy_speed |-> 105, max_enemies |-> 9]]

ELITE_MULT == [hp |-> 260, dmg |-> 180, spd |-> 108, radius |-> 26]

AURAS ==
    [haste    |-> [speed |-> 128, damage |-> 100, taken |-> 100],
     frenzy   |-> [speed |-> 100, damage |-> 135, taken |-> 100],
     guardian |-> [speed |-> 100, damage |-> 100, taken |-> 66]]

BIOME_HAZARD ==
    [crypt |-> "poison", cave |-> "none", firepit |-> "lava",
     icecavern |-> "ice", swamp |-> "poison"]

BASE_STATS == [strength |-> 10, dexterity |-> 15, vitality |-> 12, energy |-> 8]

\* -------------------------------------------------------------- arithmetic
Abs(x) == IF x < 0 THEN -x ELSE x
Min(a, b) == IF a < b THEN a ELSE b
Max(a, b) == IF a > b THEN a ELSE b
Sign(x) == IF x < 0 THEN -1 ELSE IF x > 0 THEN 1 ELSE 0

RECURSIVE Pow(_, _)
Pow(b, e) == IF e <= 0 THEN 1 ELSE b * Pow(b, e - 1)

\* v * dt with v per second and dt in ms, rounded toward zero.
MulDt(v, d) == Sign(v) * ((Abs(v) * d) \div 1000)

RECURSIVE GCD(_, _)
GCD(a, b) == IF b = 0 THEN a ELSE GCD(b, a % b)

\* A multiplier as an exact fraction.
One == [n |-> 1, d |-> 1]
\* m * n / d in lowest terms, for a fraction m in lowest terms.
RatMul(m, n, d) ==
    LET g0 == GCD(n, d)
        n0 == n \div g0
        d0 == d \div g0
        g1 == GCD(m.n, d0)
        g2 == GCD(n0, m.d)
    IN  [n |-> (m.n \div g1) * (n0 \div g2), d |-> (m.d \div g2) * (d0 \div g1)]
\* int(m) for m >= 0
FloorRat(m) == m.n \div m.d
Times(m, pct) == [n |-> m.n * pct, d |-> m.d * 100]
RatEq(a, b) == a.n * b.d = b.n * a.d
\* int(x * m)
ScaleInt(x, m) == (x * m.n) \div m.d

\* -------------------------------------------------------------- Weapon
BowProto ==
    [name |-> "Wooden Bow", dmg_min |-> 6, dmg_max |-> 10,
     bonus_hp |-> 0, life_steal |-> 0, pierce |-> 0, attack_speed |-> 0]

\* Weapons the generator and the unique table produce, as they matter here:
\* the damage range and the bonus_hp, life_steal, pierce and attack_speed
\* (in tenths) mods.
Windforce == [BowProto EXCEPT !.name = "Windforce", !.dmg_min = 30, !.dmg_max = 55,
                              !.life_steal = 6, !.bonus_hp = 30,
                              !.attack_speed = -7]
Eaglehorn == [BowProto EXCEPT !.name = "Eaglehorn", !.dmg_min = 20, !.dmg_max = 40,
                              !.pierce = 3, !.attack_speed = -5]

\* -------------------------------------------------------------- Dungeon
\* One generated dungeon: three rooms of width 6 in a row, joined by the
\* tunnel tiles 7 and 14, border tiles 0 and 21.
SampleTiles == [tx \in 0..21 |-> IF tx \in {0, 21} THEN WALL ELSE FLOOR]
SampleRooms == <<[left |-> 1, w |-> 6], [left |-> 8, w |-> 6], [left |-> 15, w |-> 6]>>

center(room) == room.left + room.w \div 2

MAP_W(d) == Cardinality(DOMAIN d.tiles)

Px(tx) == tx * TILE + TILE \div 2

is_solid_at_px(d, x) ==
    LET tx == x \div TILE
    IN  IF tx < 0 \/ tx >= MAP_W(d) THEN TRUE ELSE d.tiles[tx] = WALL

_circle_collides(d, x, radius) ==
    \/ is_solid_at_px(d, x + radius)
    \/ is_solid_at_px(d, x)
    \/ is_solid_at_px(d, x - radius)

\* Dungeon.generate: the portals go to the centres of the rooms of the
\* second half of the room list, to the first biomes other than this one.
AvailableBiomes(biome) == SelectSeq(BIOMES, LAMBDA b : b # biome)

Dungeon(level, biome, feat) ==
    LET rooms == SampleRooms
        half  == SubSeq(rooms, Len(rooms) \div 2 + 1, Len(rooms))
        avail == AvailableBiomes(biome)
        np    == IF Len(rooms) >= 3
                 THEN Min(PORTALS_PER_LEVEL, Min(Len(half), Len(avail)))
                 ELSE 0
    IN  [level  |-> level,
         biome  |-> biome,
         tiles  |-> SampleTiles,
         rooms  |-> rooms,
         portal_positions |-> [i \in 1..np |-> [tx |-> center(half[i]), dest |-> avail[i]]],
         chest_positions  |-> feat.chests,
         crate_positions  |-> feat.crates,
         hazard_pools     |-> feat.pools]

\* What the generator's random choices placed: chests and crates in the
\* rooms after the first, hazard pools in the rooms after the second.
FeatBare == [chests |-> <<>>, crates |-> <<>>, pools |-> <<>>]
FeatRich == [chests |-> <<10>>, crates |-> <<16>>, pools |-> <<17>>]
DungeonFeatures == {FeatBare, FeatRich}

\* -------------------------------------------------------------- entities
\* Player(pos=..., vel=Vec(0, 0), radius=20) with the dataclass defaults.
\* skills.get("dodge") and skills.get("life_leech") are the two skill
\* levels the simulation step reads.
NewPlayer(pos) ==
    [pos |-> pos, vel |-> 0, radius |-> 20,
     hp |-> PLAYER_HP, level |-> 1, xp |-> 0, xp_to_next |-> 40,
     gold |-> 0, potions_hp |-> 1, basic_cd |-> 0,
     weapon |-> BowProto, dmg_mult |-> 100, dmg_timer |-> 0,
     shield |-> 0, iframes |-> 0,
     infusion_type |-> "none", infusion_timer |-> 0,
     strength |-> BASE_STATS.strength, dexterity |-> BASE_STATS.dexterity,
     vitality |-> BASE_STATS.vitality, energy |-> BASE_STATS.energy,
     stat_points |-> 0, dodge |-> 0, life_leech |-> 0,
     inventory |-> <<>>, lives |-> 3, max_lives |-> 3]

max_hp(p) == PLAYER_HP + 10 * p.level + p.vitality * 3 + p.weapon.bonus_hp

\* 1.0 + dexterity * 0.01 + abs(attack_speed mod) * 0.5, as a percentage
\* (rapid_fire not taken).
calc_attack_speed_mult(p) == 100 + p.dexterity + Abs(p.weapon.attack_speed) * 5

\* dmg_mult + strength * 0.01 + energy * 0.01, as a percentage.
calc_dmg_mult(p) == p.dmg_mult + p.strength + p.energy

calc_life_steal(p) == p.weapon.life_steal + p.life_leech * 2

calc_dodge_chance(p) == p.dodge * 4

calc_pierce(p) == BASIC_PIERCE + p.weapon.pierce

\* Enemy(...) and its subclasses Elite, Boss, TreasureGoblin: cls names the
\* class.  dead_count counts the calls of on_enemy_dead for this enemy.
NewEnemy(cls, pos, radius, hp, dmg_min, dmg_max, speed, kind) ==
    [cls |-> cls, pos |-> pos, vel |-> 0, radius |-> radius,
     hp |-> hp, max_hp |-> hp, dmg_min |-> dmg_min, dmg_max |-> dmg_max,
     speed |-> speed, alive |-> TRUE, kind |-> kind,
     mult_speed |-> One, mult_damage |-> One, mult_taken |-> One,
     shot_cd |-> 0, aura |-> "none", aura_radius |-> AURA_RADIUS,
     portal_timer |-> GOBLIN_DESPAWN_TIME, loot_drop_timer |-> 0,
     dead_count |-> 0]

\* random.randint(dmg_min, dmg_max) is one of its two ends.
Roll(lo, hi, high) == IF high THEN hi ELSE lo

\* The aura's factor left out of the roll.
roll_damage_flat(e, high) == Roll(e.dmg_min, e.dmg_max, high)

\* Enemy.roll_damage
roll_damage(e, high) == ScaleInt(Roll(e.dmg_min, e.dmg_max, high), e.mult_damage)

\* Projectile(...).  pierce0 and ttl0 record the pierce and ttl it was
\* created with, hits the hits it has registered since, flown the time it
\* has been updated for, walled that it ran into a wall.
NewProjectile(pos, vel, dmg, ttl, radius, pierce, hostile, infusion) ==
    [pos |-> pos, vel |-> vel, dmg |-> dmg, ttl |-> ttl, radius |-> radius,
     pierce |-> pierce, hostile |-> hostile, infusion |-> infusion,
     pierce0 |-> pierce, ttl0 |-> ttl, hits |-> 0, flown |-> 0, walled |-> FALSE]

\* Loot(pos=..., <one payload>): payload fields default to empty; weapon is
\* <<>> for None and <<w>> for the Weapon w.
\* picked counts the times its payload has been applied.
NewLoot(pos) ==
    [pos |-> pos, gold |-> 0, potion_hp |-> FALSE, weapon |-> <<>>,
     dmg_boost |-> FALSE, shield_boost |-> FALSE, infusion |-> "none",
     ttl |-> 30000, picked |-> 0]

NewChest(pos) == [pos |-> pos, hp |-> CHEST_HP, alive |-> TRUE]
NewCrate(pos) == [pos |-> pos, hp |-> CRATE_HP, alive |-> TRUE]

\* -------------------------------------------------------------- state
VARIABLES
    game,   \* the Game object's fields (see NewGame)
    pc,     \* the statement of Game.run the loop is at
    dt,     \* this frame's dt, ms
    ticks   \* frames started

vars == <<game, pc, dt, ticks>>

_spawn_chests(d) == [i \in 1..Len(d.chest_positions) |-> NewChest(Px(d.chest_positions[i]))]
_spawn_crates(d) == [i \in 1..Len(d.crate_positions) |-> NewCrate(Px(d.crate_positions[i]))]

FirstRoomCentre(d) == Px(center(d.rooms[1]))

\* Game.__init__ for a new game of the chosen difficulty.  save_file is the
\* save file on disk (<<>>: there is none, else <<document>>), raised says that
\* an exception left the loop body; removed (the projectiles the last
\* update_projectiles dropped), damage_log, hp_hit_zero, bosses_spawned (the
\* bosses created since the program was first started) and level_bosses
\* (those created in this dungeon), aura_snapshot (see update_enemies) and
\* posthumous (what enemies with hp <= 0 did in this frame) observe the run,
\* the code has no such fields.
NewGame(difficulty_name, feat) ==
    LET d == Dungeon(1, "crypt", feat)
    IN  [current_level |-> 1, current_biome |-> "crypt",
         difficulty_name |-> difficulty_name,
         diff |-> DIFFICULTY[difficulty_name],
         MAX_ACTIVE_ENEMIES |-> DIFFICULTY[difficulty_name].max_enemies,
         dungeon |-> d,
         player |-> NewPlayer(FirstRoomCentre(d)),
         enemies |-> <<>>, projectiles |-> <<>>, loots |-> <<>>, corpses |-> <<>>,
         samplings |-> <<>>,
         chests |-> _spawn_chests(d), crates |-> _spawn_crates(d),
         spawn_timer |-> SPAWN_INTERVAL, wave |-> 1,
         boss_spawned |-> FALSE, kills |-> 0, treasure_goblin |-> FALSE,
         save_file |-> <<>>, load_failed |-> FALSE, raised |-> FALSE, removed |-> <<>>,
         damage_log |-> <<>>, hp_hit_zero |-> FALSE, bosses_spawned |-> 0,
         level_bosses |-> 0, aura_snapshot |-> <<>>, posthumous |-> {}]

\* -------------------------------------------------------------- observers
\* Record one application of an incoming damage amount D to the player:
\* before and after are the Game just before and just after the code that
\* applies it.
Damaged(before, after, src, D) ==
    [after EXCEPT
        !.damage_log = Append(@, [src |-> src, D |-> D,
                                  shield0 |-> before.player.shield,
                                  hp0     |-> before.player.hp,
                                  shield1 |-> after.player.shield,
                                  hp1     |-> after.player.hp]),
        !.hp_hit_zero = @ \/ after.player.hp <= 0]

\* Record that enemy e did what (a touch damage, a shot, an aura, a hit
\* taken off a projectile) with hp <= 0.
Posthumous(g, e, what) ==
    IF e.hp <= 0 THEN [g EXCEPT !.posthumous = @ \cup {what}] ELSE g

\* -------------------------------------------------------------- levels
\* A transition that leaves the projectiles in flight and the spawn timer
\* as they were.
next_level_carry(g, dest_biome, feat) ==
    LET level == g.current_level + 1
        d     == Dungeon(level, dest_biome, feat)
    IN  [g EXCEPT
            !.current_level = level,
            !.current_biome = dest_biome,
            !.dungeon = d,
            !.player.pos = FirstRoomCentre(d),
            !.enemies = <<>>,
            !.loots = <<>>,
            !.corpses = <<>>,
            !.chests = _spawn_chests(d),
            !.crates = _spawn_crates(d),
            !.treasure_goblin = FALSE,
            !.wave = 1,
            !.boss_spawned = FALSE,
            !.level_bosses = 0]

next_level(g, dest_biome, feat) ==
    LET level == g.current_level + 1
        d     == Dungeon(level, dest_biome, feat)
    IN  [g EXCEPT
            !.current_level = level,
            !.current_biome = dest_biome,
            !.dungeon = d,
            !.player.pos = FirstRoomCentre(d),
            !.enemies = <<>>,
            !.projectiles = <<>>,
            !.loots = <<>>,
            !.corpses = <<>>,
            !.chests = _spawn_chests(d),
            !.crates = _spawn_crates(d),
            !.treasure_goblin = FALSE,
            !.wave = 1,
            !.spawn_timer = SPAWN_INTERVAL,
            !.boss_spawned = FALSE,
            !.level_bosses = 0]

\* -------------------------------------------------------------- input
\* What pygame reports in one frame: the movement keys (A/D), the mouse
\* direction, the left mouse button and the Q key.
Inputs ==
    {[move |-> 0,  aim |-> 1, basic |-> FALSE, potion |-> FALSE],
     [move |-> 1,  aim |-> 1, basic |-> FALSE, potion |-> FALSE],
     [move |-> 0,  aim |-> 1, basic |-> TRUE,  potion |-> FALSE],
     [move |-> 0,  aim |-> 1, basic |-> FALSE, potion |-> TRUE]}

\* Weapon.roll_damage (the samples carry no elemental damage mods)
weapon_roll_damage(w, high) == Roll(w.dmg_min, w.dmg_max, high)

shoot_basic(g, direction, r) ==
    LET p    == g.player
        base == weapon_roll_damage(p.weapon, r.high)
        dmg0 == (base * calc_dmg_mult(p)) \div 100
        dmg  == IF r.crit THEN (dmg0 * 18) \div 10 ELSE dmg0
        arrow_speed == (PROJECTILE_SPEED * (100 + p.dexterity)) \div 100
        proj == NewProjectile(p.pos + direction * 20, direction * arrow_speed,
                              dmg, 900, BASIC_RADIUS, calc_pierce(p), FALSE,
                              p.infusion_type)
    IN  [g EXCEPT
            !.player.basic_cd = (BASIC_CD * 100) \div calc_attack_speed_mult(p),
            !.projectiles = Append(@, proj)]

\* The "Potions" block of handle_input: Q drinks a health potion.
drink_potion(g, in) ==
    IF in.potion /\ g.player.potions_hp > 0 /\ g.player.hp < max_hp(g.player)
    THEN [g EXCEPT !.player.hp = Min(max_hp(g.player), @ + POTION_HEAL),
                   !.player.potions_hp = @ - 1]
    ELSE g

\* The velocity comes from the movement keys, then the shot, then the potion.
handle_input(g, in, r) ==
    drink_potion(IF in.basic /\ g.player.basic_cd <= 0
                 THEN shoot_basic([g EXCEPT !.player.vel = in.move * PLAYER_SPEED], in.aim, r)
                 ELSE [g EXCEPT !.player.vel = in.move * PLAYER_SPEED],
                 in)

\* -------------------------------------------------------------- player
\* The hazard-pool loop of update_player, from pool i on.
RECURSIVE hazard_pool_damage(_, _, _)
hazard_pool_damage(g, d, i) ==
    IF i > Len(g.dungeon.hazard_pools) THEN g
    ELSE LET p   == g.player
             ppx == g.dungeon.hazard_pools[i]
             ptx == p.pos \div TILE
             dmg_rate == IF BIOME_HAZARD[g.current_biome] = "lava" THEN 3 ELSE 2
             dmg == Max(1, (dmg_rate * d * 10) \div 1000)
             g1  == IF /\ Abs(ptx - ppx) <= 1
                       /\ Abs(Px(ppx) - p.pos) * 10 < TILE * 12
                       /\ p.iframes <= 0
                    THEN Damaged(g, [g EXCEPT !.player.hp = @ - dmg], "hazard", dmg)
                    ELSE g
         IN  hazard_pool_damage(g1, d, i + 1)

\* The portal the player stands on, or 0.
PortalAt(g) ==
    LET hit == {i \in 1..Len(g.dungeon.portal_positions) :
                   Abs(Px(g.dungeon.portal_positions[i].tx) - g.player.pos) < 24}
    IN  IF hit = {} THEN 0 ELSE CHOOSE i \in hit : \A j \in hit : i <= j

\* The timers of update_player, then the move: blocked by a wall, clamped
\* to the map.
move_player(g, d) ==
    LET p0 == g.player
        p1 == [p0 EXCEPT
                 !.basic_cd = Max(0, @ - d),
                 !.iframes  = Max(0, @ - d),
                 !.infusion_timer = IF @ > 0 THEN @ - d ELSE @,
                 !.infusion_type  = IF p0.infusion_timer > 0 /\ p0.infusion_timer - d <= 0
                                    THEN "none" ELSE @,
                 !.dmg_timer = IF @ > 0 THEN @ - d ELSE @,
                 !.dmg_mult  = IF p0.dmg_timer > 0 /\ p0.dmg_timer - d <= 0
                               THEN 100 ELSE @]
        new_pos == p0.pos + MulDt(p0.vel, d)
        x1 == IF ~is_solid_at_px(g.dungeon, new_pos)
                 /\ ~_circle_collides(g.dungeon, new_pos, p0.radius)
              THEN new_pos ELSE p0.pos
    IN  [g EXCEPT !.player = [p1 EXCEPT !.pos =
            Max(p0.radius, Min(MAP_W(g.dungeon) * TILE - p0.radius, x1))]]

\* The portal loop of update_player: the first portal touched is taken.
enter_portal(g, feat) ==
    IF PortalAt(g) = 0 THEN g
    ELSE next_level(g, g.dungeon.portal_positions[PortalAt(g)].dest, feat)

update_player(g, d, feat) ==
    enter_portal(hazard_pool_damage(move_player(g, d), d, 1), feat)

\* -------------------------------------------------------------- loot
\* x * n / d rounded toward zero, for signed x.
Frac(x, n, d) == Sign(x) * Sign(n) * ((Abs(x) * Abs(n)) \div d)

IsFloorPx(d, x) ==
    LET tx == x \div TILE
    IN  tx >= 0 /\ tx < MAP_W(d) /\ d.tiles[tx] = FLOOR

\* _safe_loot_pos with the random offset 0: the centre itself when it lies
\* on a floor tile, else the first floor tile of the outward search, else
\* the centre.
_safe_loot_pos(g, centre) ==
    LET d  == g.dungeon
        cx == centre \div TILE
        cand == {q \in [r : 1..5, dx : -5..5] :
                    /\ Abs(q.dx) <= q.r
                    /\ IsFloorPx(d, Px(cx + q.dx))}
        first == CHOOSE q \in cand : \A o \in cand :
                    q.r < o.r \/ (q.r = o.r /\ q.dx <= o.dx)
    IN  IF IsFloorPx(d, centre) THEN centre
        ELSE IF cand # {} THEN Px(cx + first.dx)
        ELSE centre

\* What generate_weapon returns.
WeaponSamples == {Windforce, Eaglehorn}

\* The loot kinds whose drop chance came up in one on_enemy_dead call.
DropSamples ==
    {{}, {"gold"}, {"potion"}, {"weapon"}, {"dmg_boost", "shield_boost"}, {"infusion"}}

LootOf(pos, kind, r) ==
    CASE kind = "gold"         -> [NewLoot(pos) EXCEPT !.gold = Roll(GOLD_DROP[1], GOLD_DROP[2], r.high)]
      [] kind = "potion"       -> [NewLoot(pos) EXCEPT !.potion_hp = TRUE]
      [] kind = "weapon"       -> [NewLoot(pos) EXCEPT !.weapon = <<r.weapon>>]
      [] kind = "dmg_boost"    -> [NewLoot(pos) EXCEPT !.dmg_boost = TRUE]
      [] kind = "shield_boost" -> [NewLoot(pos) EXCEPT !.shield_boost = TRUE]
      [] kind = "infusion"     -> [NewLoot(pos) EXCEPT !.infusion = r.infusion]

\* The loop written as an if: one level-up per event at most.
level_up_once(p) ==
    IF p.xp >= p.xp_to_next
    THEN LET p1 == [p EXCEPT !.xp = @ - p.xp_to_next,
                             !.level = @ + 1,
                             !.xp_to_next = (@ * 135) \div 100]
         IN  [p1 EXCEPT !.hp = Min(max_hp(p1), p1.hp + 30),
                        !.stat_points = @ + STAT_POINTS_PER_LEVEL]
    ELSE p

\* The while loop of on_enemy_dead.
RECURSIVE level_up(_)
level_up(p) ==
    IF p.xp >= p.xp_to_next
    THEN LET p1 == [p EXCEPT !.xp = @ - p.xp_to_next,
                             !.level = @ + 1,
                             !.xp_to_next = (@ * 135) \div 100]
         IN  level_up([p1 EXCEPT !.hp = Min(max_hp(p1), p1.hp + 30),
                                 !.stat_points = @ + STAT_POINTS_PER_LEVEL])
    ELSE p

\* on_enemy_dead(e) for e = enemies[i].
on_enemy_dead(g, i, r) ==
    LET e   == g.enemies[i]
        p1  == level_up([g.player EXCEPT !.xp = @ + 6 + g.wave])
        g1  == [g EXCEPT !.kills = @ + 1, !.player = p1,
                         !.enemies[i].dead_count = @ + 1,
                         !.corpses = Append(@, [pos |-> e.pos, life |-> 4000])]
        sp  == _safe_loot_pos(g, e.pos)
        K(kind) == IF kind \in r.drops THEN <<LootOf(sp, kind, r)>> ELSE <<>>
        base  == K("gold") \o K("potion") \o K("weapon") \o K("dmg_boost")
                 \o K("shield_boost") \o K("infusion")
        elite == IF e.cls = "Elite"
                 THEN <<[NewLoot(sp) EXCEPT !.gold = Roll(15, 35, r.high)],
                        IF r.high THEN LootOf(sp, "dmg_boost", r)
                                  ELSE LootOf(sp, "shield_boost", r)>>
                      \o (IF "weapon" \in r.drops THEN <<>>
                          ELSE <<LootOf(sp, "weapon", r)>>)
                 ELSE <<>>
        boss  == IF e.cls = "Boss"
                 THEN <<LootOf(sp, "weapon", r), LootOf(sp, "weapon", r),
                        [NewLoot(sp) EXCEPT !.gold = Roll(40, 100, r.high)]>>
                 ELSE <<>>
        jackpot == [k \in 1..10 |-> [NewLoot(sp) EXCEPT !.gold = Roll(12, 35, r.high)]]
                   \o <<LootOf(sp, "dmg_boost", r), LootOf(sp, "shield_boost", r),
                        LootOf(sp, "infusion", r)>>
                   \o (IF r.high THEN <<LootOf(sp, "potion", r)>> ELSE <<>>)
                   \o <<LootOf(sp, "weapon", r), LootOf(sp, "weapon", r)>>
    IN  IF e.cls = "TreasureGoblin"
        THEN [g1 EXCEPT !.treasure_goblin = FALSE, !.loots = @ \o jackpot]
        ELSE [g1 EXCEPT !.loots = @ \o base \o elite \o boss]

\* -------------------------------------------------------------- enemies
Dist(a, b) == Abs(a - b)

\* The aura loop of update_enemies for the Elite at index i: every other
\* living enemy inside its radius gets the aura's three factors.
ApplyAura(es, i) ==
    LET e    == es[i]
        aura == AURAS[e.aura]
    IN  [j \in 1..Len(es) |->
            IF j # i /\ es[j].alive /\ Dist(es[j].pos, e.pos) <= e.aura_radius
            THEN [es[j] EXCEPT !.mult_speed  = Times(@, aura.speed),
                               !.mult_damage = Times(@, aura.damage),
                               !.mult_taken  = Times(@, aura.taken)]
            ELSE es[j]]

RECURSIVE PropagateAuras(_, _)
PropagateAuras(es, i) ==
    IF i > Len(es) THEN es
    ELSE PropagateAuras(IF es[i].cls = "Elite" /\ es[i].alive
                        THEN ApplyAura(es, i) ELSE es, i + 1)

\* The reset loop left out: the multipliers carry over from the tick before.
ResetMults_stale(es) == es

\* The reset loop.
ResetMults(es) ==
    [j \in 1..Len(es) |->
        [es[j] EXCEPT !.mult_speed = One, !.mult_damage = One, !.mult_taken = One]]

\* Axis-separated move of enemy e by its velocity; bounce is the factor
\* (in tenths) the velocity gets when the move is blocked.
MoveEnemy(g, e, d, bounce) ==
    LET new_epos == e.pos + MulDt(e.vel, d)
        free     == ~_circle_collides(g.dungeon, new_epos, e.radius)
    IN  [e EXCEPT !.pos = IF free THEN new_epos ELSE @,
                  !.vel = IF free THEN @ ELSE Frac(@, bounce, 10)]

ClampToWorld(g, e) ==
    [e EXCEPT !.pos = Max(e.radius, Min(MAP_W(g.dungeon) * TILE - e.radius, @))]

\* The eight wall probes around the enemy: the sign of the push.
WallPush(g, e) ==
    LET far  == e.radius + 2
        near == (far * 707) \div 1000
        S(x) == IF is_solid_at_px(g.dungeon, x) THEN 1 ELSE 0
        right == 1000 * S(e.pos + far) + 2 * 707 * S(e.pos + near)
        left  == 1000 * S(e.pos - far) + 2 * 707 * S(e.pos - near)
    IN  Sign(left - right)

\* The push off the walls and the clamp to the world, for enemy e.
Pushed(g, e, d) ==
    ClampToWorld(g, [e EXCEPT !.pos = @ + MulDt(WallPush(g, e) * 60, d)])

\* A death check that leaves e.alive as it is.
DeathCheck_alive(g, i, r) ==
    IF g.enemies[i].hp <= 0 /\ g.enemies[i].alive
    THEN on_enemy_dead(g, i, r)
    ELSE g

\* if e.hp <= 0 and e.alive: e.alive = False; self.on_enemy_dead(e)
DeathCheck(g, i, r) ==
    IF g.enemies[i].hp <= 0 /\ g.enemies[i].alive
    THEN on_enemy_dead([g EXCEPT !.enemies[i].alive = FALSE], i, r)
    ELSE g

\* The TreasureGoblin branch of the enemy loop.
GoblinStep(g, i, d, r) ==
    LET e0 == [g.enemies[i] EXCEPT !.portal_timer = @ - d]
        p  == g.player
        away == IF e0.pos # p.pos THEN Sign(e0.pos - p.pos) ELSE 1
        flee_dir == IF is_solid_at_px(g.dungeon, e0.pos + away * ((TILE * 3) \div 2))
                    THEN (IF r.high THEN 1 ELSE -1) ELSE away
        acc == flee_dir * ((e0.speed * 11) \div 10)
        e1 == [e0 EXCEPT !.vel = @ + Frac(acc - @, 2, 10),
                         !.loot_drop_timer = @ - d]
        drop == e1.loot_drop_timer <= 0
        e2 == IF drop THEN [e1 EXCEPT !.loot_drop_timer = GOBLIN_LOOT_INTERVAL] ELSE e1
        e3 == ClampToWorld(g, MoveEnemy(g, e2, d, -5))
        g1 == [g EXCEPT !.enemies[i] = e3,
                        !.loots = IF drop
                                  THEN Append(@, [NewLoot(_safe_loot_pos(g, e0.pos))
                                                    EXCEPT !.gold = Roll(3, 10, r.high)])
                                  ELSE @]
    IN  IF e0.portal_timer <= 0
        THEN [g EXCEPT !.enemies[i] = [e0 EXCEPT !.alive = FALSE],
                       !.treasure_goblin = FALSE]
        ELSE DeathCheck(g1, i, r)

\* The ranged attack of a spitter (kind 3) or a Boss: cd0 is the bounds of
\* the next cooldown, off the muzzle offset.
EnemyShoot(g, i, d, r, cd0, off, speed, ttl, radius) ==
    LET e0 == [g.enemies[i] EXCEPT !.shot_cd = @ - d]
        p  == g.player
        dirv == Sign(p.pos - e0.pos)
        pr == NewProjectile(e0.pos + dirv * off, dirv * speed,
                            roll_damage(e0, r.high), ttl, radius, 1, TRUE, "none")
    IN  IF e0.shot_cd <= 0
        THEN [(IF dirv # 0 THEN Posthumous(g, e0, "shot") ELSE g)
                 EXCEPT !.enemies[i] = [e0 EXCEPT !.shot_cd = Roll(cd0[1], cd0[2], r.high)],
                        !.projectiles = IF dirv # 0 THEN Append(@, pr) ELSE @]
        ELSE [g EXCEPT !.enemies[i] = e0]

\* The touch-damage block.  Vector.normalize() raises on the zero vector.
TouchDamage(g, i, d, r) ==
    LET e == g.enemies[i]
        p == g.player
        dmg    == roll_damage(e, r.high)
        absorb == IF p.shield > 0 THEN Min(p.shield, dmg) ELSE 0
        left   == dmg - absorb
        hurt   == [g EXCEPT !.player.shield = @ - absorb,
                            !.player.hp = IF left > 0 THEN @ - left ELSE @]
        g1     == IF r.dodge /\ calc_dodge_chance(p) > 0 THEN g
                  ELSE Posthumous(Damaged(g, hurt, "touch", dmg), e, "touch")
        kb     == Sign(p.pos - e.pos) * 150
    IN  IF Dist(e.pos, p.pos) < e.radius + p.radius /\ p.iframes <= 0 /\ r.touch
        THEN IF p.pos = e.pos THEN [g1 EXCEPT !.raised = TRUE]
             ELSE [g1 EXCEPT !.player.pos = @ + MulDt(kb, d)]
        ELSE g

\* The chase of the third loop of update_enemies for enemies[i]: the
\* acceleration toward the player, the move, the push off the walls, the
\* clamp.
Chase(g, i, d, r) ==
    LET e0 == g.enemies[i]
        p  == g.player
        desired == IF e0.pos # p.pos THEN Sign(p.pos - e0.pos)
                   ELSE (IF r.high THEN 1 ELSE -1)
        acc == desired * ScaleInt(e0.speed, e0.mult_speed)
    IN  [g EXCEPT !.enemies[i] =
            Pushed(g, MoveEnemy(g, [e0 EXCEPT !.vel = @ + Frac(acc - @, 1, 10)], d, 0), d)]

\* The ranged attacks of enemies[i]: a spitter's, then a Boss's.
RangedAttacks(g, i, d, r) ==
    LET g2 == IF g.enemies[i].kind = 3
              THEN EnemyShoot(g, i, d, r, <<1200, 2000>>, 14, 320, 1600, 4) ELSE g
    IN  IF g.enemies[i].cls = "Boss"
        THEN EnemyShoot(g2, i, d, r, BOSS_SHOT_CD, 18, BOSS_PROJ_SPEED, 2000, 5)
        ELSE g2

\* The end of the loop body: e.vel *= 0.98 and the death check.
Friction(g, i, r) ==
    IF g.raised THEN g
    ELSE DeathCheck([g EXCEPT !.enemies[i].vel = Frac(@, 98, 100)], i, r)

\* The body of the third loop of update_enemies for enemies[i].
EnemyStep(g, i, d, r) ==
    Friction(TouchDamage(RangedAttacks(Chase(g, i, d, r), i, d, r), i, d, r), i, r)

RECURSIVE EnemyLoop(_, _, _, _)
EnemyLoop(g, i, d, r) ==
    IF i > Len(g.enemies) \/ g.raised THEN g
    ELSE EnemyLoop(IF ~g.enemies[i].alive THEN g
                   ELSE IF g.enemies[i].cls = "TreasureGoblin" THEN GoblinStep(g, i, d, r)
                   ELSE EnemyStep(g, i, d, r),
                   i + 1, d, r)

\* The enemy list as the aura loops leave it; aura_snapshot keeps it.
SetAuras(g, es) ==
    [g EXCEPT !.enemies = es,
              !.aura_snapshot = es,
              !.posthumous = IF \E i, j \in 1..Len(es) :
                                    /\ es[i].cls = "Elite" /\ es[i].alive /\ es[i].hp <= 0
                                    /\ j # i /\ es[j].alive
                                    /\ Dist(es[j].pos, es[i].pos) <= es[i].aura_radius
                             THEN @ \cup {"aura"} ELSE @]

\* A list comprehension that keeps every enemy whatever the draw.
Sweep_keep(g, r) == g

\* The last statement of update_enemies: a dead enemy leaves the list when
\* its draw says so.
Sweep(g, r) ==
    IF g.raised THEN g
    ELSE [g EXCEPT !.enemies = SelectSeq(@, LAMBDA e : e.alive \/ ~r.sweep)]

update_enemies(g, d, r) ==
    Sweep(EnemyLoop(SetAuras(g, PropagateAuras(ResetMults(g.enemies), 1)), 1, d, r), r)

\* -------------------------------------------------------------- crates, chests
\* _on_crate_broken: the damage loop over the enemies, from index j.
RECURSIVE CrateBlast(_, _, _, _)
CrateBlast(g, cpos, j, r) ==
    IF j > Len(g.enemies) \/ g.raised THEN g
    ELSE LET e    == g.enemies[j]
             dist == Dist(e.pos, cpos)
             dmg  == Max(1, (Roll(CRATE_EXPLODE_DMG[1], CRATE_EXPLODE_DMG[2], r.high)
                             * (CRATE_EXPLODE_RADIUS - dist)) \div CRATE_EXPLODE_RADIUS)
             g1   == [g EXCEPT !.enemies[j].hp = @ - dmg,
                               !.enemies[j].vel = @ + Sign(e.pos - cpos) * 200]
         IN  CrateBlast(IF e.alive /\ dist < CRATE_EXPLODE_RADIUS
                        THEN (IF e.pos = cpos THEN [g EXCEPT !.enemies[j].hp = @ - dmg,
                                                             !.raised = TRUE]
                              ELSE DeathCheck(g1, j, r))
                        ELSE g,
                        cpos, j + 1, r)

\* The explosion's damage to the player.
CrateHitsPlayer(g, cpos, r) ==
    LET p  == g.player
        pdist  == Dist(p.pos, cpos)
        pdmg   == Max(1, (Roll(CRATE_EXPLODE_DMG[1], CRATE_EXPLODE_DMG[2], r.high)
                          * (CRATE_EXPLODE_RADIUS - pdist)) \div CRATE_EXPLODE_RADIUS)
        absorb == IF p.shield > 0 THEN Min(p.shield, pdmg) ELSE 0
        left   == pdmg - absorb
    IN  IF ~g.raised /\ r.explode /\ pdist < CRATE_EXPLODE_RADIUS /\ p.iframes <= 0
        THEN Damaged(g, [g EXCEPT !.player.shield = @ - absorb,
                                  !.player.hp = IF left > 0 THEN @ - left ELSE @,
                                  !.player.iframes = IF left > 0 THEN Max(@, 300) ELSE @],
                     "crate", pdmg)
        ELSE g

\* The crate's drop, at sp.
CrateDrop(g, sp, r) ==
    LET kind == CASE "gold" \in r.drops      -> "gold"
                  [] "potion" \in r.drops    -> "potion"
                  [] "dmg_boost" \in r.drops -> "dmg_boost"
                  [] "infusion" \in r.drops  -> "infusion"
                  [] OTHER                   -> "weapon"
    IN  IF ~g.raised /\ r.drops # {}
        THEN [g EXCEPT !.loots = Append(@, LootOf(sp, kind, r))]
        ELSE g

_on_crate_broken(g, cpos, r) ==
    CrateDrop(CrateHitsPlayer(IF r.explode THEN CrateBlast(g, cpos, 1, r) ELSE g, cpos, r),
              _safe_loot_pos(g, cpos), r)

\* _on_chest_broken: gold, two or three consumables, a weapon.
_on_chest_broken(g, cpos, r) ==
    LET sp == _safe_loot_pos(g, cpos)
        consumables == IF r.high
                       THEN <<LootOf(sp, "potion", r), LootOf(sp, "dmg_boost", r),
                              LootOf(sp, "shield_boost", r)>>
                       ELSE <<LootOf(sp, "shield_boost", r), LootOf(sp, "infusion", r)>>
    IN  [g EXCEPT !.loots = @ \o <<[NewLoot(sp) EXCEPT !.gold = Roll(8, 25, r.high)]>>
                              \o consumables \o <<LootOf(sp, "weapon", r)>>]

\* -------------------------------------------------------------- projectiles
\* The lightning chain: the first other living enemy within 150 px of
\* enemies[j] loses chain_dmg.
ChainLightning(g, j, damage) ==
    LET near == {n \in 1..Len(g.enemies) :
                    /\ n # j /\ g.enemies[n].alive
                    /\ Dist(g.enemies[n].pos, g.enemies[j].pos) < 150}
        n0   == CHOOSE n \in near : \A m \in near : n <= m
    IN  IF near = {} THEN g
        ELSE [g EXCEPT !.enemies[n0].hp = @ - Max(1, damage \div 3)]

\* A hit that uses up no pierce.
UsePierce_free(pr) == [pr EXCEPT !.hits = @ + 1]

\* pr.pierce -= 1; if pr.pierce <= 0: pr.ttl = 0 -- a hit uses up one pierce.
UsePierce(pr) ==
    [pr EXCEPT !.pierce = @ - 1, !.hits = @ + 1,
               !.ttl = IF pr.pierce - 1 <= 0 THEN 0 ELSE @]

\* A hit whose damage leaves the enemy's damage-taken multiplier out.
HitEnemy_raw(g, k, j) ==
    LET pr == g.projectiles[k]
        e  == g.enemies[j]
        base == Max(1, pr.dmg)
        short == {100, 180, 200, 220, 340, 360, 380}
        damage == CASE pr.infusion = "fire"      -> (base * 135) \div 100
                    [] pr.infusion = "lightning" ->
                           (base * 115) \div 100 - (IF base \in short THEN 1 ELSE 0)
                    [] OTHER                     -> base
        g1 == CASE pr.infusion = "ice" ->
                     [g EXCEPT !.enemies[j].vel = Frac(@, 3, 10),
                               !.enemies[j].mult_speed = Times(@, 50)]
                [] pr.infusion = "lightning" -> ChainLightning(g, j, damage)
                [] OTHER -> g
        g2 == [g1 EXCEPT !.enemies[j].hp = @ - damage]
        ls == calc_life_steal(g.player)
        heal == Max(1, (damage * ls) \div 100)
    IN  IF e.pos = pr.pos THEN [g2 EXCEPT !.raised = TRUE]
        ELSE [g2 EXCEPT
                !.enemies[j].vel = @ + Sign(e.pos - pr.pos) * 300,
                !.player.hp = IF ls > 0 THEN Min(max_hp(g.player), @ + heal) ELSE @,
                !.projectiles[k] = UsePierce(pr)]

\* Player projectile k hits enemy j.  int(damage * 1.15) is computed in
\* binary floating point, where 1.15 is a little less than 115/100: for the
\* damages below 400 listed in short the product falls just below the whole
\* number and int() gives one less (100 * 1.15 = 114.99999999999999).
HitEnemy(g, k, j) ==
    LET pr == g.projectiles[k]
        e  == g.enemies[j]
        base == Max(1, ScaleInt(pr.dmg, e.mult_taken))
        short == {100, 180, 200, 220, 340, 360, 380}
        damage == CASE pr.infusion = "fire"      -> (base * 135) \div 100
                    [] pr.infusion = "lightning" ->
                           (base * 115) \div 100 - (IF base \in short THEN 1 ELSE 0)
                    [] OTHER                     -> base
        g1 == CASE pr.infusion = "ice" ->
                     [g EXCEPT !.enemies[j].vel = Frac(@, 3, 10),
                               !.enemies[j].mult_speed = Times(@, 50)]
                [] pr.infusion = "lightning" -> ChainLightning(g, j, damage)
                [] OTHER -> g
        g2 == [g1 EXCEPT !.enemies[j].hp = @ - damage]
        ls == calc_life_steal(g.player)
        heal == Max(1, (damage * ls) \div 100)
    IN  IF e.pos = pr.pos THEN [g2 EXCEPT !.raised = TRUE]
        ELSE [Posthumous(g2, e, "pierce") EXCEPT
                !.enemies[j].vel = @ + Sign(e.pos - pr.pos) * 300,
                !.player.hp = IF ls > 0 THEN Min(max_hp(g.player), @ + heal) ELSE @,
                !.projectiles[k] = UsePierce(pr)]

\* for e in self.enemies, from index j, for player projectile k
RECURSIVE EnemyHits(_, _, _)

\* After a hit on enemies[j]: break when the pierce is used up.
AfterHit(g, k, j) ==
    IF g.raised \/ g.projectiles[k].pierce <= 0 THEN g
    ELSE EnemyHits(g, k, j + 1)

EnemyHits(g, k, j) ==
    IF j > Len(g.enemies) \/ g.raised THEN g
    ELSE LET pr == g.projectiles[k]
             e  == g.enemies[j]
         IN  IF e.alive /\ Dist(e.pos, pr.pos) < e.radius + pr.radius
             THEN AfterHit(HitEnemy(g, k, j), k, j)
             ELSE EnemyHits(g, k, j + 1)

\* Hostile projectile k against the player.
HitPlayer(g, k, r) ==
    LET pr == g.projectiles[k]
        p  == g.player
        dmg    == pr.dmg
        absorb == IF p.shield > 0 THEN Min(p.shield, dmg) ELSE 0
        left   == dmg - absorb
        hurt   == [g EXCEPT !.player.shield = @ - absorb,
                            !.player.hp = IF left > 0 THEN @ - left ELSE @,
                            !.player.iframes = IF left > 0 THEN Max(@, 120) ELSE @]
    IN  IF Dist(p.pos, pr.pos) < p.radius + pr.radius /\ p.iframes <= 0
        THEN IF r.dodge /\ calc_dodge_chance(p) > 0
             THEN [g EXCEPT !.projectiles[k].ttl = 0]
             ELSE [Damaged(g, hurt, "projectile", dmg) EXCEPT !.projectiles[k].ttl = 0]
        ELSE g

\* The first loop of update_projectiles, from index k.
RECURSIVE FlyLoop(_, _, _, _)

\* A loop that tests every projectile, hostile or not, against the enemies.
FlyLoop_any(g, k, d, r) ==
    IF k > Len(g.projectiles) \/ g.raised THEN g
    ELSE LET pr0 == g.projectiles[k]
             pr  == [pr0 EXCEPT !.ttl = @ - d, !.flown = @ + d,
                                !.pos = @ + MulDt(pr0.vel, d)]
             g1  == [g EXCEPT !.projectiles[k] = pr]
         IN  FlyLoop(IF is_solid_at_px(g.dungeon, pr.pos)
                     THEN [g1 EXCEPT !.projectiles[k].ttl = 0,
                                     !.projectiles[k].walled = TRUE]
                     ELSE EnemyHits(g1, k, 1),
                     k + 1, d, r)

FlyLoop(g, k, d, r) ==
    IF k > Len(g.projectiles) \/ g.raised THEN g
    ELSE LET pr0 == g.projectiles[k]
             pr  == [pr0 EXCEPT !.ttl = @ - d, !.flown = @ + d,
                                !.pos = @ + MulDt(pr0.vel, d)]
             g1  == [g EXCEPT !.projectiles[k] = pr]
         IN  FlyLoop(IF is_solid_at_px(g.dungeon, pr.pos)
                     THEN [g1 EXCEPT !.projectiles[k].ttl = 0,
                                     !.projectiles[k].walled = TRUE]
                     ELSE IF pr.hostile THEN HitPlayer(g1, k, r)
                     ELSE EnemyHits(g1, k, 1),
                     k + 1, d, r)

\* The first living chest or crate (boxes) projectile pr overlaps, or 0.
BoxAt(boxes, pr) ==
    LET hit == {c \in 1..Len(boxes) :
                   boxes[c].alive /\ Dist(boxes[c].pos, pr.pos) < 20 + pr.radius}
    IN  IF hit = {} THEN 0 ELSE CHOOSE c \in hit : \A o \in hit : c <= o

RECURSIVE ChestLoop(_, _, _)
ChestLoop(g, k, r) ==
    IF k > Len(g.projectiles) \/ g.raised THEN g
    ELSE LET pr == g.projectiles[k]
             c  == BoxAt(g.chests, pr)
             g1 == [g EXCEPT !.chests[c].hp = @ - 1,
                             !.chests[c].alive = g.chests[c].hp - 1 > 0,
                             !.projectiles[k] = UsePierce(pr)]
         IN  ChestLoop(IF pr.hostile \/ pr.ttl <= 0 \/ c = 0 THEN g
                       ELSE IF g1.chests[c].alive THEN g1
                       ELSE _on_chest_broken(g1, g.chests[c].pos, r),
                       k + 1, r)

RECURSIVE CrateLoop(_, _, _)
CrateLoop(g, k, r) ==
    IF k > Len(g.projectiles) \/ g.raised THEN g
    ELSE LET pr == g.projectiles[k]
             c  == BoxAt(g.crates, pr)
             g1 == [g EXCEPT !.crates[c].hp = @ - 1,
                             !.crates[c].alive = g.crates[c].hp - 1 > 0,
                             !.projectiles[k] = UsePierce(pr)]
         IN  CrateLoop(IF pr.hostile \/ pr.ttl <= 0 \/ c = 0 THEN g
                       ELSE IF g1.crates[c].alive THEN g1
                       ELSE _on_crate_broken(g1, g.crates[c].pos, r),
                       k + 1, r)

\* The last statement of update_projectiles: the projectiles with no ttl
\* left leave the list.
DropSpent(g) ==
    IF g.raised THEN g
    ELSE [g EXCEPT
            !.projectiles = SelectSeq(@, LAMBDA pr : pr.ttl > 0),
            !.removed = SelectSeq(g.projectiles, LAMBDA pr : pr.ttl <= 0)]

update_projectiles(g, d, r) ==
    DropSpent(CrateLoop(ChestLoop(FlyLoop(g, 1, d, r), 1, r), 1, r))

\* -------------------------------------------------------------- loot pickup
INV_COLS == 10
INV_ROWS == 4

\* The pickup block of update_loot for loots[i].
Pickup(g, i) ==
    LET l == g.loots[i]
        p == g.player
        has_weapon == l.weapon # <<>>
        better == has_weapon /\ (l.weapon[1].dmg_min + l.weapon[1].dmg_max)
                                > (p.weapon.dmg_min + p.weapon.dmg_max)
        room   == Len(p.inventory) < INV_COLS * INV_ROWS
        p1 == [p EXCEPT !.gold = @ + l.gold,
                        !.potions_hp = IF l.potion_hp THEN @ + 1 ELSE @]
        p2 == IF ~has_weapon THEN p1
              ELSE IF better
              THEN [p1 EXCEPT !.inventory = IF room THEN Append(@, p.weapon) ELSE @,
                              !.weapon = l.weapon[1]]
              ELSE [p1 EXCEPT !.inventory = IF room THEN Append(@, l.weapon[1]) ELSE @]
        p3 == IF l.dmg_boost
              THEN [p2 EXCEPT !.dmg_mult = DMG_BOOST_MULT, !.dmg_timer = DMG_BOOST_TIME]
              ELSE p2
        p4 == IF l.shield_boost
              THEN [p3 EXCEPT !.shield = Max(@, SHIELD_POINTS)] ELSE p3
        p5 == IF l.infusion # "none"
              THEN [p4 EXCEPT !.infusion_type = l.infusion,
                              !.infusion_timer = INFUSION_DURATION]
              ELSE p4
    IN  [g EXCEPT !.player = p5,
                  !.loots[i].picked = @ + 1,
                  !.loots[i].ttl = 0]

RECURSIVE LootLoop(_, _, _)
LootLoop(g, i, d) ==
    IF i > Len(g.loots) THEN g
    ELSE LET g1 == [g EXCEPT !.loots[i].ttl = @ - d]
         IN  LootLoop(IF Dist(g1.loots[i].pos, g1.player.pos) < 24
                      THEN Pickup(g1, i) ELSE g1,
                      i + 1, d)

\* The list is not filtered: a loot picked up stays in it.
update_loot_keep(g, d) == LootLoop(g, 1, d)

update_loot(g, d) ==
    [LootLoop(g, 1, d) EXCEPT !.loots = SelectSeq(@, LAMBDA l : l.ttl > 0)]

\* -------------------------------------------------------------- spawning
WAVE_SCALE == <<11, 10>>

\* (WAVE_SCALE ** (wave - 1)) * (1.0 + 0.1 * (current_level - 1))
SpawnScale(g) ==
    RatMul(RatMul(One, Pow(WAVE_SCALE[1], g.wave - 1), Pow(WAVE_SCALE[2], g.wave - 1)),
           9 + g.current_level, 10)

\* int(base * mult * scale * diff) for mult and diff in percent
SpawnStat(base, mult, scale, diff) ==
    FloorRat(RatMul(RatMul(RatMul(scale, base, 1), mult, 100), diff, 100))

\* The floor tiles between lo and hi farther than away px from the player.
FloorTilesFar(g, lo, hi, away) ==
    {tx \in lo..hi : g.dungeon.tiles[tx] = FLOOR /\ Dist(Px(tx), g.player.pos) > away}

\* A random.randint over the tiles of a set: its least or greatest member.
PickTile(S, far) ==
    IF far THEN CHOOSE t \in S : \A o \in S : o <= t
    ELSE CHOOSE t \in S : \A o \in S : t <= o

\* The max_tries defaults of _random_floor_pos and _random_floor_in_room.
MAX_TRIES == 200
MAX_TRIES_ROOM == 40

\* random.randint(max(1, base_tx - reach), min(MAP_W - 2, base_tx + reach))
\* raises ValueError: the player is so far off the map that the range is
\* empty.
EmptyRange(g, reach) ==
    Max(1, g.player.pos \div TILE - reach)
        > Min(MAP_W(g.dungeon) - 2, g.player.pos \div TILE + reach)

\* The tile the draws of _random_floor_pos come up with.  When all draws
\* miss (r.exhaust: possible when some tile of the range fails the test,
\* certain when all do) it is a tile that fails the test.
DrawnTile(g, lo, hi, r) ==
    LET cand == FloorTilesFar(g, lo, hi, 200)
    IN  IF cand = {} \/ (r.exhaust /\ cand # lo..hi)
        THEN PickTile((lo..hi) \ cand, r.far)
        ELSE PickTile(cand, r.far)

\* The range of tiles _random_floor_pos draws from.
DrawRange(g, near_player) ==
    LET base_tx == g.player.pos \div TILE
        w       == MAP_W(g.dungeon)
    IN  IF near_player THEN <<Max(1, base_tx - 12), Min(w - 2, base_tx + 12)>>
        ELSE <<1, w - 2>>

\* The attempts of the while loop from number tries + 1 up to number
\* upto, each drawing tile tx: the failed attempts counted when the loop
\* returns or reaches upto.
RECURSIVE TriesUpTo(_, _, _, _)
TriesUpTo(g, tx, tries, upto) ==
    IF tries >= upto THEN tries
    ELSE IF g.dungeon.tiles[tx] = FLOOR /\ Dist(Px(tx), g.player.pos) > 200 THEN tries
    ELSE TriesUpTo(g, tx, tries + 1, upto)

\* The while loop of _random_floor_pos from attempt number tries + 1, each
\* attempt drawing tile tx: the position returned, the failed attempts
\* made, and whether it is the fallback offset position.  The attempts are
\* gone through twenty at a time; AfterTries goes on after the attempts up
\* to number upto, of which the first n failed.
RECURSIVE WhileTries(_, _, _, _, _)
AfterTries(g, tx, r, n, upto, max_tries) ==
    IF n < upto
    THEN [pos |-> Px(tx), tries |-> n, fallback |-> FALSE, loop |-> "_random_floor_pos"]
    ELSE WhileTries(g, tx, r, upto, max_tries)

WhileTries(g, tx, r, tries, max_tries) ==
    IF tries >= max_tries
    THEN [pos |-> g.player.pos + Roll(-240, 240, r.high), tries |-> tries,
          fallback |-> TRUE, loop |-> "_random_floor_pos"]
    ELSE AfterTries(g, tx, r, TriesUpTo(g, tx, tries, Min(tries + 20, max_tries)),
                    Min(tries + 20, max_tries), max_tries)

\* _random_floor_pos with what the loop has counted.
FloorPos(g, near_player, r) ==
    WhileTries(g, DrawnTile(g, DrawRange(g, near_player)[1],
                            DrawRange(g, near_player)[2], r), r, 0, MAX_TRIES)

_random_floor_pos(g, near_player, r) == FloorPos(g, near_player, r).pos

\* samplings keeps what each call of _random_floor_pos of this frame
\* returned; a call that raises returns nothing.
Sampled(g, near_player, r) ==
    IF near_player /\ EmptyRange(g, 12) THEN [g EXCEPT !.raised = TRUE]
    ELSE [g EXCEPT !.samplings = Append(@, FloorPos(g, near_player, r))]

\* The position the last call of _random_floor_pos returned.
LastPos(g) == g.samplings[Len(g.samplings)].pos

\* spawn_enemy from "scale = ..." on, the position drawn.
EnemyAt(g, kind_override, r) ==
    LET scale == SpawnScale(g)
        hp      == SpawnStat(ENEMY_BASE_HP, 100, scale, g.diff.enemy_hp)
        dmg_min == SpawnStat(ENEMY_BASE_DMG[1], 100, scale, g.diff.enemy_dmg)
        dmg_max == SpawnStat(ENEMY_BASE_DMG[2], 100, scale, g.diff.enemy_dmg)
        speed   == (ENEMY_SPEED * Roll(95, 105, r.high) * g.diff.enemy_speed) \div 10000
        kind    == IF kind_override >= 0 THEN kind_override ELSE r.kind
        e       == NewEnemy("Enemy", LastPos(g), 20, hp, dmg_min, dmg_max, speed, kind)
    IN  IF g.raised THEN g
        ELSE [g EXCEPT !.enemies = Append(@,
                 IF kind = 3 THEN [e EXCEPT !.shot_cd = Roll(1400, 2200, r.high)] ELSE e)]

spawn_enemy(g, near_player, kind_override, r) ==
    IF g.raised \/ Len(g.enemies) >= g.MAX_ACTIVE_ENEMIES THEN g
    ELSE EnemyAt(Sampled(g, near_player, r), kind_override, r)

\* The tile the draws of _random_floor_in_room come up with: the room's
\* centre tile, or a tile that is no floor when all draws miss (r.exhaust:
\* possible when the range holds such a tile, certain when it holds no
\* other).
DrawnInRoom(d, room, r) ==
    LET lo    == room.left + 1
        hi    == room.left + room.w - 2
        floor == {tx \in lo..hi : d.tiles[tx] = FLOOR}
    IN  IF floor = {} \/ (r.exhaust /\ floor # lo..hi)
        THEN PickTile((lo..hi) \ floor, r.far)
        ELSE IF center(room) \in floor THEN center(room)
        ELSE PickTile(floor, r.far)

\* The for loop of _random_floor_in_room from attempt number tries + 1,
\* each attempt drawing tile tx; pos = -1 stands for None.
RECURSIVE InRoomTries(_, _, _, _)
InRoomTries(d, tx, tries, max_tries) ==
    IF tries >= max_tries
    THEN [pos |-> -1, tries |-> tries, fallback |-> FALSE,
          loop |-> "_random_floor_in_room"]
    ELSE IF d.tiles[tx] = FLOOR
    THEN [pos |-> Px(tx), tries |-> tries, fallback |-> FALSE,
          loop |-> "_random_floor_in_room"]
    ELSE InRoomTries(d, tx, tries + 1, max_tries)

_random_floor_in_room(d, room, r) ==
    InRoomTries(d, DrawnInRoom(d, room, r), 0, MAX_TRIES_ROOM)

\* m.pos = mpos, for the enemy spawned last.
PlaceLast(g, pos) == [g EXCEPT !.enemies[Len(g.enemies)].pos = pos]

\* One round of the minion loop of spawn_elite_pack: mpos is drawn in the
\* room, or anywhere when the room gave none, then the minion is spawned
\* and moved to mpos.
SpawnMinion(g, in_room, r) ==
    IF in_room.pos = -1
    THEN PlaceLast(spawn_enemy(Sampled([g EXCEPT !.samplings = Append(@, in_room)],
                                       FALSE, r),
                               FALSE, r.kind, r),
                   _random_floor_pos(g, FALSE, r))
    ELSE PlaceLast(spawn_enemy([g EXCEPT !.samplings = Append(@, in_room)],
                               FALSE, r.kind, r),
                   in_room.pos)

\* The minion loop of spawn_elite_pack, from minion i of count; rooms are
\* the candidate rooms.
RECURSIVE SpawnMinions(_, _, _, _, _)
SpawnMinions(g, i, count, rooms, r) ==
    IF i > count \/ Len(g.enemies) >= g.MAX_ACTIVE_ENEMIES \/ g.raised THEN g
    ELSE SpawnMinions(
            SpawnMinion(g, _random_floor_in_room(
                               g.dungeon,
                               rooms[((i - 1 + (IF r.far THEN 1 ELSE 0)) % Len(rooms)) + 1],
                               r), r),
            i + 1, count, rooms, r)

_find_room_at(d, pos) ==
    LET tx  == pos \div TILE
        hit == {k \in 1..Len(d.rooms) :
                   d.rooms[k].left <= tx /\ tx < d.rooms[k].left + d.rooms[k].w}
    IN  IF hit = {} THEN 0 ELSE CHOOSE k \in hit : \A o \in hit : k <= o

\* candidate_rooms: the elite's room, if it stands in one (k), and up to
\* three of the others.
CandidateRooms(d, k) ==
    LET others == SelectSeq(d.rooms, LAMBDA rm : k = 0 \/ rm # d.rooms[k])
    IN  (IF k = 0 THEN <<>> ELSE <<d.rooms[k]>>) \o SubSeq(others, 1, Min(3, Len(others)))

\* spawn_elite_pack with the elite's position drawn.
ElitePackAt(g, r) ==
    LET pos   == LastPos(g)
        scale == SpawnScale(g)
        hp      == SpawnStat(ENEMY_BASE_HP, ELITE_MULT.hp, scale, g.diff.enemy_hp)
        dmg_min == SpawnStat(ENEMY_BASE_DMG[1], ELITE_MULT.dmg, scale, g.diff.enemy_dmg)
        dmg_max == SpawnStat(ENEMY_BASE_DMG[2], ELITE_MULT.dmg, scale, g.diff.enemy_dmg)
        spd     == (ENEMY_SPEED * ELITE_MULT.spd * g.diff.enemy_speed) \div 10000
        elite   == [NewEnemy("Elite", pos, ELITE_MULT.radius, hp, dmg_min, dmg_max, spd, 1)
                      EXCEPT !.aura = r.aura]
        count   == Roll(PACK_SIZE_RANGE[1], PACK_SIZE_RANGE[2], r.high)
    IN  IF g.raised THEN g
        ELSE SpawnMinions([g EXCEPT !.enemies = Append(@, elite)], 1, count,
                          CandidateRooms(g.dungeon, _find_room_at(g.dungeon, pos)), r)

spawn_elite_pack(g, r) ==
    IF g.raised \/ Len(g.enemies) >= g.MAX_ACTIVE_ENEMIES THEN g
    ELSE ElitePackAt(Sampled(g, TRUE, r), r)

\* spawn_treasure_goblin from "scale = ..." on, the position drawn.
GoblinAt(g) ==
    LET hp  == (50 * (9 + g.current_level)) \div 10
        goblin == NewEnemy("TreasureGoblin", LastPos(g), 16, hp, 0, 0,
                           (ENEMY_SPEED * 15) \div 10, 4)
    IN  IF g.raised THEN g
        ELSE [g EXCEPT !.treasure_goblin = TRUE, !.enemies = Append(@, goblin)]

spawn_treasure_goblin(g, r) ==
    IF g.raised \/ g.treasure_goblin THEN g ELSE GoblinAt(Sampled(g, TRUE, r))

\* A spawn that forgets to set the flag.
spawn_boss_unflagged(g, r) ==
    LET d   == g.dungeon
        pos == Px(center(d.rooms[Len(d.rooms)]))
        boss_scale == 10 + (g.current_level \div 5 - 1) * 3
        hp      == (BOSS_HP * g.diff.enemy_hp * boss_scale) \div 1000
        dmg_min == (BOSS_DMG[1] * g.diff.enemy_dmg * boss_scale) \div 1000
        dmg_max == (BOSS_DMG[2] * g.diff.enemy_dmg * boss_scale) \div 1000
        b == [NewEnemy("Boss", pos, 34, hp, dmg_min, dmg_max,
                       (ENEMY_SPEED * 9 * g.diff.enemy_speed) \div 1000, 1)
                EXCEPT !.shot_cd = Roll(BOSS_SHOT_CD[1], BOSS_SHOT_CD[2], r.high)]
    IN  IF g.current_level % 5 # 0 \/ g.boss_spawned THEN g
        ELSE [g EXCEPT !.enemies = Append(@, b),
                       !.bosses_spawned = @ + 1,
                       !.level_bosses = @ + 1]

spawn_boss(g, r) ==
    LET d   == g.dungeon
        pos == Px(center(d.rooms[Len(d.rooms)]))
        boss_scale == 10 + (g.current_level \div 5 - 1) * 3
        hp      == (BOSS_HP * g.diff.enemy_hp * boss_scale) \div 1000
        dmg_min == (BOSS_DMG[1] * g.diff.enemy_dmg * boss_scale) \div 1000
        dmg_max == (BOSS_DMG[2] * g.diff.enemy_dmg * boss_scale) \div 1000
        b == [NewEnemy("Boss", pos, 34, hp, dmg_min, dmg_max,
                       (ENEMY_SPEED * 9 * g.diff.enemy_speed) \div 1000, 1)
                EXCEPT !.shot_cd = Roll(BOSS_SHOT_CD[1], BOSS_SHOT_CD[2], r.high)]
    IN  IF g.raised \/ g.current_level % 5 # 0 \/ g.boss_spawned THEN g
        ELSE [g EXCEPT !.enemies = Append(@, b),
                       !.boss_spawned = TRUE,
                       !.bosses_spawned = @ + 1,
                       !.level_bosses = @ + 1]

spawn_pickup_near_player(g, r) ==
    LET base_tx == g.player.pos \div TILE
        cand == FloorTilesFar(g, Max(1, base_tx - 10),
                              Min(MAP_W(g.dungeon) - 2, base_tx + 10), 140)
        pos  == Px(PickTile(cand, r.far))
    IN  IF g.raised THEN g
        ELSE IF EmptyRange(g, 10) THEN [g EXCEPT !.raised = TRUE]
        ELSE IF cand = {} THEN g
        ELSE [g EXCEPT !.loots = Append(@,
                 IF r.high THEN [NewLoot(pos) EXCEPT !.dmg_boost = TRUE]
                 ELSE [NewLoot(pos) EXCEPT !.shield_boost = TRUE])]

RECURSIVE SpawnWave(_, _, _)
SpawnWave(g, n, r) ==
    IF n <= 0 THEN g ELSE SpawnWave(spawn_enemy(g, TRUE, -1, r), n - 1, r)

\* The enemies of a wave after the elite pack, if one came (did_pack).
SpawnEnemies(g, did_pack, r) ==
    IF ~did_pack
    THEN SpawnWave(g, Max(0, Min(2, g.MAX_ACTIVE_ENEMIES - Len(g.enemies))), r)
    ELSE IF r.extra /\ Len(g.enemies) < g.MAX_ACTIVE_ENEMIES
    THEN spawn_enemy(g, TRUE, -1, r) ELSE g

SpawnPickup(g, r) == IF r.pickup THEN spawn_pickup_near_player(g, r) ELSE g

SpawnGoblin(g, r) ==
    IF ~g.treasure_goblin /\ r.goblin THEN spawn_treasure_goblin(g, r) ELSE g

\* self.wave += 1 and self.spawn_timer = SPAWN_INTERVAL (to.wave is the
\* increment), reached unless a spawn before them raised.
Unless(g, to) ==
    IF g.raised THEN g
    ELSE [g EXCEPT !.wave = @ + to.wave, !.spawn_timer = to.spawn_timer]

\* The body of "if self.spawn_timer <= 0", for g with the timer run down.
\* A director that counts the wave before it spawns.
SpawnNow_first(g, did_pack, r) ==
    LET g1 == [g EXCEPT !.wave = @ + 1]
    IN  spawn_boss(Unless(SpawnGoblin(SpawnPickup(SpawnEnemies(
                              IF did_pack THEN spawn_elite_pack(g1, r) ELSE g1,
                              did_pack, r), r), r),
                          [wave |-> 0, spawn_timer |-> SPAWN_INTERVAL]), r)

SpawnNow(g, did_pack, r) ==
    spawn_boss(Unless(SpawnGoblin(SpawnPickup(
                          SpawnEnemies(IF did_pack THEN spawn_elite_pack(g, r) ELSE g,
                                       did_pack, r), r), r),
                      [wave |-> 1, spawn_timer |-> SPAWN_INTERVAL]), r)

update_spawning(g, d, r) ==
    IF g.spawn_timer - d <= 0
    THEN SpawnNow([g EXCEPT !.spawn_timer = @ - d],
                  r.pack /\ Len(g.enemies) < g.MAX_ACTIVE_ENEMIES, r)
    ELSE [g EXCEPT !.spawn_timer = @ - d]

\* -------------------------------------------------------------- decay
\* Every corpse loses dt of its life; those with none left are dropped.
update_corpses(g, d) ==
    [g EXCEPT !.corpses = SelectSeq([i \in 1..Len(g.corpses) |->
                                        [g.corpses[i] EXCEPT !.life = @ - d]],
                                    LAMBDA c : c.life > 0)]

\* -------------------------------------------------------------- save file
\* _save_game: the JSON document, as far as _load_game reads it back.
_save_game(g) ==
    LET p == g.player
    IN  [g EXCEPT !.save_file = <<
            [level |-> p.level, xp |-> p.xp, xp_to_next |-> p.xp_to_next,
             gold |-> p.gold, hp |-> p.hp, potions_hp |-> p.potions_hp,
             strength |-> p.strength, dexterity |-> p.dexterity,
             vitality |-> p.vitality, energy |-> p.energy,
             stat_points |-> p.stat_points, dodge |-> p.dodge,
             life_leech |-> p.life_leech, lives |-> p.lives,
             max_lives |-> p.max_lives, weapon |-> p.weapon,
             inventory |-> p.inventory,
             current_level |-> g.current_level, current_biome |-> g.current_biome,
             wave |-> g.wave, kills |-> g.kills, difficulty |-> g.difficulty_name]>>]

\* _load_game on the JSON document sv, a function from the keys it holds
\* (player and game section in one).  The keys of LoadRequired are read
\* with d[key], in this order, the others with d.get(key, default); the first
\* missing required key raises KeyError, which ends the load (load_failed)
\* with the assignments made up to there in place.  hp is capped by
\* max_hp() while the weapon is still the new Player's Wooden Bow.  obs is
\* the Game whose observers carry on.
LoadRequired ==
    <<"current_level", "current_biome", "wave", "kills", "level", "xp",
      "xp_to_next", "gold", "strength", "dexterity", "vitality", "energy", "weapon">>

_load_game(sv, feat, obs) ==
    LET Get(k, default) == IF k \in DOMAIN sv THEN sv[k] ELSE default
        bad   == {i \in 1..Len(LoadRequired) : LoadRequired[i] \notin DOMAIN sv}
        n     == IF bad = {} THEN Len(LoadRequired) + 1
                 ELSE CHOOSE i \in bad : \A k \in bad : i <= k
        Req(i, cur) == IF i < n THEN sv[LoadRequired[i]] ELSE cur
        fresh == NewGame(Get("difficulty", "Normal"), feat)
        d     == IF n > 4 THEN Dungeon(sv.current_level, sv.current_biome, feat)
                 ELSE fresh.dungeon
        q     == fresh.player
        p0    == [q EXCEPT
                    !.pos = FirstRoomCentre(d),
                    !.level = Req(5, @), !.xp = Req(6, @), !.xp_to_next = Req(7, @),
                    !.gold = Req(8, @), !.strength = Req(9, @),
                    !.dexterity = Req(10, @), !.vitality = Req(11, @),
                    !.energy = Req(12, @)]
        p1    == IF n <= 12 THEN p0
                 ELSE [p0 EXCEPT
                         !.stat_points = Get("stat_points", 0),
                         !.dodge = Get("dodge", 0), !.life_leech = Get("life_leech", 0),
                         !.lives = Get("lives", 3), !.max_lives = Get("max_lives", 3),
                         !.potions_hp = Get("potions_hp", 1),
                         !.hp = Min(Get("hp", max_hp(p0)), max_hp(p0))]
        p2    == IF n <= 13 THEN p1
                 ELSE [p1 EXCEPT !.weapon = sv.weapon,
                                 !.inventory = Get("inventory", <<>>)]
    IN  [fresh EXCEPT
            !.current_level = Req(1, @),
            !.current_biome = Req(2, @),
            !.wave = Req(3, @), !.kills = Req(4, @),
            !.dungeon = d,
            !.player = p2,
            !.chests = IF n > 13 THEN _spawn_chests(d) ELSE <<>>,
            !.crates = IF n > 13 THEN _spawn_crates(d) ELSE <<>>,
            !.boss_spawned = FALSE, !.spawn_timer = SPAWN_INTERVAL,
            !.save_file = <<sv>>,
            !.load_failed = n <= Len(LoadRequired),
            !.bosses_spawned = obs.bosses_spawned]

\* Game.__init__ after _load_game: "Failed to load, start fresh" asks for
\* the difficulty and builds the dungeon of depth 1, and leaves what the
\* load had assigned before it failed.
start_fresh(g, dn, feat) ==
    IF ~g.load_failed THEN g
    ELSE [g EXCEPT
            !.difficulty_name = dn,
            !.diff = DIFFICULTY[dn],
            !.MAX_ACTIVE_ENEMIES = DIFFICULTY[dn].max_enemies,
            !.dungeon = Dungeon(1, "crypt", feat),
            !.player.pos = FirstRoomCentre(Dungeon(1, "crypt", feat)),
            !.chests = _spawn_chests(Dungeon(1, "crypt", feat)),
            !.crates = _spawn_crates(Dungeon(1, "crypt", feat))]

\* -------------------------------------------------------------- respawn
_respawn_player(g, at_start) ==
    LET p  == g.player
        d  == g.dungeon
        tx == p.pos \div TILE
        stuck == \/ tx < 0 \/ tx >= MAP_W(d)
                 \/ d.tiles[tx] # FLOOR
                 \/ _circle_collides(d, p.pos, p.radius)
        pos1 == IF stuck THEN _safe_loot_pos(g, p.pos) ELSE p.pos
        g1 == IF at_start
              THEN [g EXCEPT !.player.lives = p.max_lives,
                             !.player.pos = FirstRoomCentre(d),
                             !.enemies = <<>>, !.projectiles = <<>>,
                             !.spawn_timer = SPAWN_INTERVAL * 2,
                             !.player.gold = @ - (p.gold \div 4)]
              ELSE [g EXCEPT !.player.lives = @ - 1,
                             !.player.pos = pos1,
                             !.enemies = SelectSeq(@, LAMBDA e :
                                 Dist(e.pos, pos1) > 250 \/ e.cls = "TreasureGoblin"),
                             !.projectiles = SelectSeq(@, LAMBDA pr : ~pr.hostile)]
    IN  [g1 EXCEPT !.player.hp = max_hp(g1.player),
                   !.player.vel = 0,
                   !.player.iframes = 2000,
                   !.player.shield = 0,
                   !.player.dmg_timer = 0,
                   !.player.dmg_mult = 100]

\* -------------------------------------------------------------- run loop
\* dt = clock.tick(FPS) / 1000: a frame at 60 FPS, and a frame after the
\* loop was held up for the length of a spawn interval.
FrameTimes == {16, 6000}

\* The random draws of one call, sampled: high says that the randint and
\* uniform draws come out at their upper end, the other fields say which of
\* the random() < chance tests succeed and what random.choice picks.
PlayerRolls == {[high |-> FALSE, crit |-> FALSE], [high |-> TRUE, crit |-> TRUE]}

EnemyRolls ==
    {[high |-> FALSE, touch |-> FALSE, dodge |-> FALSE, sweep |-> FALSE,
      drops |-> {}, weapon |-> Eaglehorn, infusion |-> "ice"],
     [high |-> TRUE, touch |-> TRUE, dodge |-> FALSE, sweep |-> FALSE,
      drops |-> {"gold", "weapon"}, weapon |-> Eaglehorn, infusion |-> "ice"],
     [high |-> FALSE, touch |-> TRUE, dodge |-> TRUE, sweep |-> TRUE,
      drops |-> {"infusion"}, weapon |-> Eaglehorn, infusion |-> "ice"]}

ProjectileRolls ==
    {[high |-> FALSE, dodge |-> FALSE, explode |-> FALSE,
      drops |-> {}, weapon |-> Windforce, infusion |-> "fire"],
     [high |-> TRUE, dodge |-> FALSE, explode |-> TRUE,
      drops |-> {"gold"}, weapon |-> Windforce, infusion |-> "fire"]}

SpawnRolls ==
    {[high |-> FALSE, far |-> FALSE, pack |-> FALSE, extra |-> FALSE,
      pickup |-> FALSE, goblin |-> FALSE, kind |-> 0, aura |-> "haste", exhaust |-> FALSE],
     [high |-> TRUE, far |-> TRUE, pack |-> FALSE, extra |-> FALSE,
      pickup |-> TRUE, goblin |-> FALSE, kind |-> 3, aura |-> "haste", exhaust |-> FALSE],
     [high |-> TRUE, far |-> FALSE, pack |-> TRUE, extra |-> TRUE,
      pickup |-> FALSE, goblin |-> TRUE, kind |-> 0, aura |-> "haste", exhaust |-> FALSE],
     [high |-> FALSE, far |-> TRUE, pack |-> TRUE, extra |-> FALSE,
      pickup |-> FALSE, goblin |-> FALSE, kind |-> 0, aura |-> "guardian", exhaust |-> FALSE],
     [high |-> FALSE, far |-> FALSE, pack |-> FALSE, extra |-> FALSE,
      pickup |-> FALSE, goblin |-> FALSE, kind |-> 1, aura |-> "frenzy", exhaust |-> TRUE],
     [high |-> TRUE, far |-> FALSE, pack |-> TRUE, extra |-> FALSE,
      pickup |-> FALSE, goblin |-> TRUE, kind |-> 2, aura |-> "guardian", exhaust |-> TRUE]}

\* The draws a call makes: all of S when the call draws at all, else one.
Draws(S, drawn) == IF drawn THEN S ELSE {CHOOSE r \in S : TRUE}

\* The top of the loop body: dt = self.clock.tick(FPS) / 1000.0.  The
\* observers of the frame start empty.
StartFrame(g) ==
    /\ pc = "tick" /\ ticks < MaxTicks
    /\ \E t \in FrameTimes : dt' = t
    /\ ticks' = ticks + 1
    /\ game' = [g EXCEPT !.damage_log = <<>>, !.hp_hit_zero = FALSE, !.removed = <<>>,
                         !.aura_snapshot = <<>>, !.samplings = <<>>,
                         !.posthumous = {}]

\* A frame without events.
ClockTick ==
    /\ StartFrame(game)
    /\ pc' = "handle_input"

\* KEYDOWN i, then a click on inventory cell idx: _inventory_screen swaps
\* the equipped weapon with that cell.
InventoryScreen ==
    /\ \E idx \in 1..Len(game.player.inventory) :
          StartFrame([game EXCEPT !.player.weapon = game.player.inventory[idx],
                                  !.player.inventory[idx] = game.player.weapon])
    /\ pc' = "handle_input"

\* KEYDOWN c, then a stat button in _character_screen (here: vitality).
CharacterScreen ==
    /\ game.player.stat_points > 0
    /\ StartFrame([game EXCEPT !.player.vitality = @ + 1, !.player.stat_points = @ - 1])
    /\ pc' = "handle_input"

\* KEYDOWN Escape, then "Save & Quit" in _pause_screen: the loop ends.
PauseSaveQuit ==
    /\ StartFrame(_save_game(game))
    /\ pc' = "quit"

HandleInput ==
    /\ pc = "handle_input"
    /\ \E in \in Inputs :
          \E r \in Draws(PlayerRolls, in.basic /\ game.player.basic_cd <= 0) :
             game' = handle_input(game, in, r)
    /\ pc' = "update_player"
    /\ UNCHANGED <<dt, ticks>>

UpdatePlayer ==
    /\ pc = "update_player"
    /\ \E feat \in Draws(DungeonFeatures, TRUE) : game' = update_player(game, dt, feat)
    /\ pc' = "update_enemies"
    /\ UNCHANGED <<dt, ticks>>

UpdateEnemies ==
    /\ pc = "update_enemies"
    /\ \E r \in Draws(EnemyRolls, game.enemies # <<>>) :
          game' = update_enemies(game, dt, r)
    /\ pc' = IF game'.raised THEN "fatal" ELSE "update_projectiles"
    /\ UNCHANGED <<dt, ticks>>

UpdateProjectiles ==
    /\ pc = "update_projectiles"
    /\ \E r \in Draws(ProjectileRolls, game.projectiles # <<>>) :
          game' = update_projectiles(game, dt, r)
    /\ pc' = IF game'.raised THEN "fatal" ELSE "update_loot"
    /\ UNCHANGED <<dt, ticks>>

UpdateLoot ==
    /\ pc = "update_loot"
    /\ game' = update_loot(game, dt)
    /\ pc' = "update_spawning"
    /\ UNCHANGED <<dt, ticks>>

\* A loop body that goes from the spawn director straight to the death
\* check.
UpdateSpawning_last ==
    /\ pc = "update_spawning"
    /\ \E r \in Draws(SpawnRolls, game.spawn_timer - dt <= 0) :
          game' = update_spawning(game, dt, r)
    /\ pc' = IF game'.raised THEN "fatal" ELSE "death_check"
    /\ UNCHANGED <<dt, ticks>>

UpdateSpawning ==
    /\ pc = "update_spawning"
    /\ \E r \in Draws(SpawnRolls, game.spawn_timer - dt <= 0) :
          game' = update_spawning(game, dt, r)
    /\ pc' = IF game'.raised THEN "fatal" ELSE "update_effects"
    /\ UNCHANGED <<dt, ticks>>

\* update_particles ... update_screen_shake and the lightning chains: of
\* what decays here the model keeps the corpses.
UpdateEffects ==
    /\ pc = "update_effects"
    /\ game' = update_corpses(game, dt)
    /\ pc' = "death_check"
    /\ UNCHANGED <<dt, ticks>>

\* The end of the loop body: if self.player.hp <= 0 ... self.draw()
DeathCheckOrDraw ==
    /\ pc = "death_check"
    /\ pc' = IF game.player.hp <= 0 THEN "death_screen" ELSE "tick"
    /\ UNCHANGED <<game, dt, ticks>>

\* A death screen that offers "Respawn Here" whatever the lives.
Respawn_in_place ==
    /\ pc = "death_screen"
    /\ game' = _respawn_player(game, FALSE)
    /\ pc' = "tick"
    /\ UNCHANGED <<dt, ticks>>

\* _death_screen returns "respawn" (lives left) or "start" (none left) ...
Respawn ==
    /\ pc = "death_screen"
    /\ game' = _respawn_player(game, game.player.lives <= 0)
    /\ pc' = "tick"
    /\ UNCHANGED <<dt, ticks>>

\* ... or "quit": the game is saved and the loop ends.
DeathQuit ==
    /\ pc = "death_screen"
    /\ game' = _save_game(game)
    /\ pc' = "quit"
    /\ UNCHANGED <<dt, ticks>>

Difficulties == {"Easy", "Normal", "Hard"}

\* The program is started again and "Continue" is chosen.
Continue ==
    /\ pc = "quit"
    /\ game.save_file # <<>>
    /\ \E feat \in DungeonFeatures :
          \E dn \in Draws(Difficulties,
                           \E i \in 1..Len(LoadRequired) :
                               LoadRequired[i] \notin DOMAIN game.save_file[1]) :
             game' = start_fresh(_load_game(game.save_file[1], feat, game), dn, feat)
    /\ pc' = "tick"
    /\ UNCHANGED <<dt, ticks>>


NewGames == {NewGame(dn, feat) : dn \in Difficulties, feat \in DungeonFeatures}

\* ---- states in the middle of a run
\* The draws the enemies of the states below were spawned with.
SceneRolls ==
    [high |-> FALSE, far |-> FALSE, pack |-> TRUE, extra |-> FALSE,
     pickup |-> FALSE, goblin |-> FALSE, kind |-> 0, aura |-> "haste", exhaust |-> FALSE]

\* A magic bow with the "Sturdy" prefix.
SturdyBow == [BowProto EXCEPT !.name = "Sturdy Short Bow", !.dmg_min = 7,
                              !.dmg_max = 11, !.bonus_hp = 20]

\* Depth 4, wave 3: the player, one kill short of a level-up,
\* stands two steps from a portal; a wounded spitter is on them, an arrow of
\* theirs is in flight and a gold drop lies behind them.
SceneFight(hp, shield) ==
    LET g0 == [NewGame("Normal", FeatRich) EXCEPT
                 !.current_level = 4, !.dungeon = Dungeon(4, "crypt", FeatRich),
                 !.wave = 3, !.kills = 11, !.spawn_timer = 3000]
        g1 == spawn_enemy(g0, TRUE, 3, SceneRolls)
    IN  [g1 EXCEPT
           !.player.pos = 526, !.player.hp = hp, !.player.shield = shield,
           !.player.xp = 35, !.player.gold = 40, !.player.potions_hp = 0,
           !.enemies[1].pos = 556, !.enemies[1].hp = 5, !.enemies[1].shot_cd = 10,
           !.projectiles = <<[NewProjectile(700, 874, 7, 900, BASIC_RADIUS, 1, FALSE, "none")
                                EXCEPT !.ttl = 400, !.flown = 500]>>,
           !.loots = <<[NewLoot(300) EXCEPT !.gold = 5, !.ttl = 20000]>>]

\* Depth 1: the player, shielded, stands by a crate at the rim of a hazard
\* pool.
ScenePool ==
    [NewGame("Hard", FeatRich) EXCEPT
        !.player.pos = 780, !.player.hp = 100, !.player.shield = 10,
        !.spawn_timer = 2000]

\* An elite pack has spawned: the elite at tile 9, its minions in the three
\* rooms; since then one minion has walked up to the player, who carries an
\* ice infusion, and one has been killed and not swept yet.  An arrow shot
\* from the Eaglehorn, two hits into its four, is about to reach the minion.
ScenePack ==
    LET g1 == spawn_elite_pack(NewGame("Easy", FeatBare), SceneRolls)
    IN  [g1 EXCEPT
           !.spawn_timer = 6000, !.wave = 2, !.kills = 1,
           !.player.infusion_type = "ice", !.player.infusion_timer = 9000,
           !.player.xp = 7, !.player.weapon = Eaglehorn,
           !.projectiles = <<[NewProjectile(230, 874, 24, 900, BASIC_RADIUS, 4, FALSE, "none")
                                EXCEPT !.ttl = 860, !.flown = 40,
                                       !.pierce = 2, !.hits = 2]>>,
           !.enemies[2].hp = 0, !.enemies[2].alive = FALSE, !.enemies[2].dead_count = 1,
           !.enemies[3].pos = 250]

\* The player, at full health with a Sturdy bow, is two steps from the
\* drops of an elite.
SceneLoot ==
    LET g0 == NewGame("Normal", FeatBare)
        p  == [g0.player EXCEPT !.weapon = SturdyBow, !.pos = 400, !.gold = 12]
    IN  [g0 EXCEPT
           !.player = [p EXCEPT !.hp = max_hp(p)],
           !.kills = 3, !.spawn_timer = 1000,
           !.loots = <<[NewLoot(426) EXCEPT !.gold = 15, !.ttl = 29000],
                       [NewLoot(426) EXCEPT !.shield_boost = TRUE, !.ttl = 29000],
                       [NewLoot(426) EXCEPT !.weapon = <<Eaglehorn>>, !.ttl = 29000],
                       [NewLoot(440) EXCEPT !.potion_hp = TRUE, !.ttl = 10]>>]

\* A save file written at depth 5: of the 25 stat points of five level-ups,
\* one is unspent.
SaveDeep ==
    [level |-> 6, xp |-> 20, xp_to_next |-> 176, gold |-> 300, hp |-> 236,
     potions_hp |-> 2, strength |-> 18, dexterity |-> 23, vitality |-> 12,
     energy |-> 16, stat_points |-> 1, dodge |-> 1, life_leech |-> 0,
     lives |-> 0, max_lives |-> 3, weapon |-> Windforce, inventory |-> <<>>,
     current_level |-> 5, current_biome |-> "firepit", wave |-> 2, kills |-> 40,
     difficulty |-> "Hard"]

\* The game loaded from it, one spawn interval later: the first wave has
\* come, and the boss with it.
SceneBoss ==
    update_spawning(_load_game(SaveDeep, FeatRich, NewGame("Hard", FeatRich)),
                    SPAWN_INTERVAL,
                    [SceneRolls EXCEPT !.pack = FALSE, !.kind = 1])

\* Two enemies, the nearer one almost dead, stand by the explosive crate of
\* the third room; a lightning arrow and a plain arrow of the player are
\* about to reach the nearer one.
SceneCrate ==
    [NewGame("Normal", FeatRich) EXCEPT
        !.player.pos = 600, !.spawn_timer = 3000,
        !.enemies = <<NewEnemy("Enemy", 785, 20, 5, 3, 6, 135, 0),
                      NewEnemy("Enemy", 715, 20, 3, 3, 6, 135, 0)>>,
        !.projectiles = <<[NewProjectile(770, 874, 30, 900, BASIC_RADIUS, 2, FALSE, "lightning")
                             EXCEPT !.ttl = 860, !.flown = 40],
                          [NewProjectile(770, 874, 10, 900, BASIC_RADIUS, 3, FALSE, "none")
                             EXCEPT !.ttl = 860, !.flown = 40]>>]

\* The fight of SceneFight on the last life.
SceneLastLife == [SceneFight(7, 0) EXCEPT !.player.lives = 0]

Scenes ==
    {SceneFight(100, 10), SceneFight(7, 0), SceneLastLife, ScenePool, ScenePack,
     SceneLoot, SceneBoss, SceneCrate}

Init ==
    /\ game \in NewGames \cup Scenes
    /\ pc = "tick"
    /\ dt = 16
    /\ ticks = 0

Next ==
    \/ ClockTick
    \/ InventoryScreen
    \/ CharacterScreen
    \/ PauseSaveQuit
    \/ HandleInput
    \/ UpdatePlayer
    \/ UpdateEnemies
    \/ UpdateProjectiles
    \/ UpdateLoot
    \/ UpdateSpawning
    \/ UpdateEffects
    \/ DeathCheckOrDraw
    \/ Respawn
    \/ DeathQuit
    \/ Continue

Spec == Init /\ [][Next]_vars

\* ====================================================================
\* Properties
\* ====================================================================

\* C1: every application of an incoming damage amount D to the player, from
\* any source (enemy touch, hostile projectile, crate explosion, hazard
\* pool), takes min(shield, D) from the shield and D - min(shield, D) from
\* hp.
C1_ShieldAbsorbsFirst ==
    \A i \in 1..Len(game.damage_log) :
        LET a      == game.damage_log[i]
            absorb == Min(a.shield0, a.D)
        IN  /\ a.shield1 = a.shield0 - absorb
            /\ a.hp1 = a.hp0 - (a.D - absorb)

\* The product of the factors stat of the living Elites, from index i on,
\* other than es[j] itself, whose aura radius covers es[j].
RECURSIVE AuraProduct(_, _, _, _)
AuraProduct(es, j, i, stat) ==
    IF i > Len(es) THEN One
    ELSE LET rest == AuraProduct(es, j, i + 1, stat)
         IN  IF /\ i # j /\ es[i].cls = "Elite" /\ es[i].alive
                /\ Dist(es[j].pos, es[i].pos) <= es[i].aura_radius
             THEN Times(rest, AURAS[es[i].aura][stat])
             ELSE rest

AurasExact(es, j) ==
    /\ RatEq(es[j].mult_speed,  AuraProduct(es, j, 1, "speed"))
    /\ RatEq(es[j].mult_damage, AuraProduct(es, j, 1, "damage"))
    /\ RatEq(es[j].mult_taken,  AuraProduct(es, j, 1, "taken"))

\* C2 (as stated): once aura propagation has run, the three multipliers of
\* each enemy of the list equal the product of the factors of the living
\* Elites, other than itself, that cover it, and 1 when none does.
C2_EveryEnemy ==
    \A j \in 1..Len(game.aura_snapshot) : AurasExact(game.aura_snapshot, j)

\* C2 (amended): once aura propagation has run, the three multipliers of
\* each living enemy equal the product of the factors of the living Elites,
\* other than itself, that cover it, and 1 when none does, whatever the
\* multipliers were in the tick before.
C2_LivingEnemies ==
    \A j \in 1..Len(game.aura_snapshot) :
        game.aura_snapshot[j].alive => AurasExact(game.aura_snapshot, j)

\* In the second frame, a living enemy under a haste aura and a living one
\* under none.
C2_Witness ==
    /\ ticks = 2 /\ pc = "update_projectiles"
    /\ \E j, k \in 1..Len(game.aura_snapshot) :
          LET es == game.aura_snapshot
          IN  /\ es[j].alive /\ RatEq(es[j].mult_speed, [n |-> 128, d |-> 100])
              /\ es[k].alive /\ es[k].cls = "Enemy" /\ RatEq(es[k].mult_speed, One)
              /\ \E i \in 1..Len(es) : es[i].cls = "Elite" /\ es[i].alive

\* What C3 says of a player projectile still in the list ...
InFlightOk(pr) ==
    /\ pr.pierce0 >= 1
    /\ pr.hits < pr.pierce0
    /\ pr.pierce = pr.pierce0 - pr.hits
    /\ ~pr.walled
    /\ pr.ttl > 0 /\ pr.ttl = pr.ttl0 - pr.flown

\* ... and of one update_projectiles has just removed.
RemovedOk(pr) ==
    /\ pr.hits <= pr.pierce0
    /\ pr.pierce = pr.pierce0 - pr.hits
    /\ pr.hits = pr.pierce0 \/ pr.walled \/ pr.ttl0 - pr.flown <= 0

\* C3: a player projectile created with pierce N >= 1 stays in the list
\* while it has fewer than N hits, has met no wall and has ttl left, its
\* pierce going down by one per hit and its ttl by dt per tick; it is
\* removed in the tick of its N-th hit, of its wall collision or of its
\* ttl running out, and never registers more than N hits.
C3_ProjectileLifetime ==
    /\ \A k \in 1..Len(game.projectiles) :
          ~game.projectiles[k].hostile => InFlightOk(game.projectiles[k])
    /\ \A k \in 1..Len(game.removed) :
          ~game.removed[k].hostile => RemovedOk(game.removed[k])

\* An arrow of pierce 4 is removed with its fourth hit, away from the walls
\* and with ttl left, while a later arrow stays in flight.
C3_Witness ==
    /\ \E k \in 1..Len(game.removed) :
          LET pr == game.removed[k]
          IN  ~pr.hostile /\ pr.pierce0 = 4 /\ pr.hits = 4 /\ ~pr.walled
              /\ pr.ttl0 - pr.flown > 0
    /\ \E k \in 1..Len(game.projectiles) :
          LET pr == game.projectiles[k]
          IN  ~pr.hostile /\ pr.hits < pr.pierce0 /\ pr.flown > 0

\* ---- XP-gain events on their own: the spitter of SceneFight, its hp gone,
\* dies in update_enemies, for every xp below the first threshold and a
\* sample of waves (the gain is 6 + wave).
XPWaves == {1, 3, 44, 94, 200}

XPStarts ==
    {[SceneFight(100, 10) EXCEPT !.player.xp = x, !.wave = w, !.enemies[1].hp = 0] :
        x \in 0..39, w \in XPWaves}

InitXP ==
    /\ game \in XPStarts
    /\ pc = "update_enemies"
    /\ dt = 16
    /\ ticks = 1

\* if e.hp <= 0 and e.alive: ... self.on_enemy_dead(e), for the first enemy.
KillXP ==
    /\ pc = "update_enemies"
    /\ \E r \in EnemyRolls : game' = DeathCheck(game, 1, r)
    /\ pc' = "update_projectiles"
    /\ UNCHANGED <<dt, ticks>>

NextXP == KillXP

SpecXP == InitXP /\ [][NextXP]_vars

\* floor(x * 1.35)
Grow(x) == (x * 135) \div 100

\* The threshold after n level-ups from threshold x, and the sum of the n
\* thresholds passed on the way.
RECURSIVE GrowN(_, _)
GrowN(x, n) == IF n = 0 THEN x ELSE GrowN(Grow(x), n - 1)

RECURSIVE Passed(_, _)
Passed(x, n) == IF n = 0 THEN 0 ELSE x + Passed(Grow(x), n - 1)

\* C4: after an XP-gain event xp < xp_to_next; the event added n >= 0
\* levels, each taking the then current xp_to_next from xp (which never goes
\* below 0) and replacing xp_to_next by floor(xp_to_next * 1.35); xp = 35,
\* xp_to_next = 40 and a gain of 50 give one level-up, xp = 45 and
\* xp_to_next = 54.
C4_LevelUpLoop ==
    [][pc = "update_enemies" =>
          LET p    == game.player
              q    == game'.player
              gain == 6 + game.wave
              n    == q.level - p.level
          IN  /\ n >= 0
              /\ q.xp >= 0 /\ q.xp < q.xp_to_next
              /\ q.xp_to_next = GrowN(p.xp_to_next, n)
              /\ q.xp = p.xp + gain - Passed(p.xp_to_next, n)
              /\ (p.xp = 35 /\ p.xp_to_next = 40 /\ gain = 50)
                    => (n = 1 /\ q.xp = 45 /\ q.xp_to_next = 54)]_vars

\* The example's outcome.
C4_Witness ==
    /\ pc = "update_projectiles" /\ game.wave = 44
    /\ game.player.level = 2 /\ game.player.xp = 45 /\ game.player.xp_to_next = 54
    /\ game.kills = 12

\* The gold, and the number of potions, of the loots from index i on that
\* lie within pickup reach of position pos.
RECURSIVE GoldInReach(_, _, _)
GoldInReach(loots, pos, i) ==
    IF i > Len(loots) THEN 0
    ELSE (IF Dist(loots[i].pos, pos) < 24 THEN loots[i].gold ELSE 0)
         + GoldInReach(loots, pos, i + 1)

RECURSIVE PotionsInReach(_, _, _)
PotionsInReach(loots, pos, i) ==
    IF i > Len(loots) THEN 0
    ELSE (IF Dist(loots[i].pos, pos) < 24 /\ loots[i].potion_hp THEN 1 ELSE 0)
         + PotionsInReach(loots, pos, i + 1)

\* C5: update_loot applies the payload of each loot in reach once (the
\* player gains exactly their gold and potions) and removes it in the same
\* tick: no loot that stays in the list has been picked up or is in reach,
\* so no payload is ever applied a second time.
C5_PickupOnce ==
    [][pc = "update_loot" =>
          /\ game'.player.gold = game.player.gold
                                 + GoldInReach(game.loots, game.player.pos, 1)
          /\ game'.player.potions_hp = game.player.potions_hp
                                       + PotionsInReach(game.loots, game.player.pos, 1)
          /\ \A i \in 1..Len(game'.loots) :
                /\ game'.loots[i].picked = 0
                /\ game'.loots[i].ttl > 0
                /\ Dist(game'.loots[i].pos, game'.player.pos) >= 24]_vars

\* The player has walked onto the elite's drops: the gold, the shield and
\* the weapon are theirs, the drops are gone.
C5_Witness ==
    /\ pc = "update_spawning" /\ game.kills = 3
    /\ game.player.gold = 27 /\ game.player.shield = SHIELD_POINTS
    /\ game.player.weapon = Eaglehorn
    /\ game.loots = <<>>

\* C6: right after a level transition the enemy, projectile and loot lists
\* are empty, the player stands at the centre of the first room of the new
\* dungeon, the wave counter is 1 and the spawn timer is the full spawn
\* interval.
C6_LevelTransition ==
    [][pc = "update_player" /\ game'.current_level # game.current_level =>
          /\ game'.current_level = game.current_level + 1
          /\ game'.enemies = <<>>
          /\ game'.projectiles = <<>>
          /\ game'.loots = <<>>
          /\ game'.player.pos = game'.dungeon.rooms[1].left * TILE
                                + (game'.dungeon.rooms[1].w \div 2) * TILE + TILE \div 2
          /\ game'.wave = 1
          /\ game'.spawn_timer = SPAWN_INTERVAL]_vars

\* The fight of SceneFight left behind through the portal: depth 5, the
\* frame's update_player just done.
C6_Witness ==
    /\ pc = "update_enemies" /\ ticks = 1
    /\ game.current_level = 5 /\ game.kills = 11
    /\ game.enemies = <<>> /\ game.wave = 1

\* C7: the player's hp is always within 0 .. max_hp.
C7_HpInRange ==
    /\ 0 <= game.player.hp
    /\ game.player.hp <= max_hp(game.player)

\* C8: a frame in which a damage application left the player's hp at or
\* below 0 ends in the death screen.
C8_DeadAtEndOfTick ==
    [][pc = "death_check" /\ game.hp_hit_zero => pc' = "death_screen"]_vars

\* C9: the enemy list is never longer than MAX_ACTIVE_ENEMIES of the chosen
\* difficulty.
C9_EnemyCap ==
    Len(game.enemies) <= DIFFICULTY[game.difficulty_name].max_enemies

\* C10 (as stated): no run spawns more than one boss, later ticks, level
\* transitions and a save and reload included.
C10_OneBossPerRun ==
    game.bosses_spawned <= 1

\* C10 (amended): a dungeon gets at most one boss, and only at a depth that
\* is a multiple of five: once its boss has been spawned (the flag is set),
\* later ticks spawn no second one, until a level transition or the load of
\* a save file builds the next dungeon.
C10_OneBossPerDungeon ==
    /\ game.level_bosses <= 1
    /\ game.boss_spawned <=> game.level_bosses = 1
    /\ game.level_bosses = 1 => game.current_level % 5 = 0

\* Depth 5: the boss came with the first spawn wave, and two more waves
\* have passed the gate since.
C10_Witness ==
    /\ pc = "death_check" /\ ticks = 2
    /\ game.current_level = 5 /\ game.wave = 5
    /\ game.boss_spawned /\ game.level_bosses = 1
    /\ \E i \in 1..Len(game.enemies) : game.enemies[i].cls = "Boss"

\* C11: every enemy a spawn step creates (enemy, elite, pack minion,
\* treasure goblin, boss) stands on a FLOOR tile when the step ends, also
\* when the rejection sampling ran out of tries and the offset position of
\* the fallback was used.
C11_SpawnOnFloor ==
    [][pc = "update_spawning" =>
          \A i \in (Len(game.enemies) + 1)..Len(game'.enemies) :
              ~is_solid_at_px(game'.dungeon, game'.enemies[i].pos)]_vars

\* Each sub-step of the sequence is followed by the next one of the
\* sequence, or by the end of the run when it raised an exception.
InOrder(steps) ==
    \A k \in 1..(Len(steps) - 1) :
        pc = steps[k] => pc' \in {steps[k + 1], "fatal"}

\* C12 (as stated): within a tick the sub-steps run in the order player
\* update, enemy update, projectile update, loot pickup, decay of corpses
\* and effects, and last the spawn director.
C12_SpawnDirectorLast ==
    [][InOrder(<<"update_player", "update_enemies", "update_projectiles",
                 "update_loot", "update_effects", "update_spawning",
                 "death_check">>)]_vars

\* C12 (amended): within a tick the sub-steps run in the order player
\* update, enemy update, projectile update, loot pickup, spawn director,
\* and last the decay of corpses and effects.
C12_DecayLast ==
    [][InOrder(<<"update_player", "update_enemies", "update_projectiles",
                 "update_loot", "update_spawning", "update_effects",
                 "death_check">>)]_vars

\* A tick in which an enemy died: the spawn director has sent the next wave,
\* and the decay step, which will drop the corpse, is still to run.
C12_Witness ==
    /\ pc = "update_effects"
    /\ game.spawn_timer = SPAWN_INTERVAL /\ game.wave >= 2
    /\ game.corpses # <<>> /\ game.corpses[1].life <= dt

\* What one update_projectiles step did.  NoneOwned(h): the list held no
\* hostile projectile (h = TRUE), no projectile of the player's (h = FALSE).
NoneOwned(hostile) ==
    \A k \in 1..Len(game.projectiles) : game.projectiles[k].hostile # hostile

EnemiesKeepHp ==
    /\ Len(game'.enemies) = Len(game.enemies)
    /\ \A i \in 1..Len(game.enemies) : game'.enemies[i].hp >= game.enemies[i].hp

PlayerKeepsHp ==
    /\ game'.player.hp >= game.player.hp
    /\ game'.player.shield >= game.player.shield

CrateBroke ==
    \E c \in 1..Len(game.crates) : game.crates[c].alive /\ ~game'.crates[c].alive

\* C13 (as stated): an update_projectiles step with no player projectile in
\* the list lowers no enemy's hp, and one with no hostile projectile in the
\* list lowers neither the player's hp nor the player's shield.
C13_NoCrossDamage ==
    [][pc = "update_projectiles" =>
          /\ NoneOwned(FALSE) => EnemiesKeepHp
          /\ NoneOwned(TRUE) => PlayerKeepsHp]_vars

\* C13 (amended): no hostile projectile ever hits an enemy, a chest or a
\* crate, and an update_projectiles step with no player projectile in the
\* list lowers no enemy's hp.  Each damage such a step applies to the player
\* is the damage of a hostile projectile of the list, or that of the
\* explosion of a crate a player projectile broke in the step; without
\* either the player's hp and shield are not lowered.
C13_CrossDamageOnlyByCrate ==
    [][pc = "update_projectiles" =>
          /\ \A k \in 1..Len(game'.projectiles) :
                game'.projectiles[k].hostile => game'.projectiles[k].hits = 0
          /\ \A k \in 1..Len(game'.removed) :
                game'.removed[k].hostile => game'.removed[k].hits = 0
          /\ NoneOwned(FALSE) => EnemiesKeepHp
          /\ \A n \in (Len(game.damage_log) + 1)..Len(game'.damage_log) :
                \/ /\ game'.damage_log[n].src = "crate"
                   /\ CrateBroke
                \/ /\ game'.damage_log[n].src = "projectile"
                   /\ \E k \in 1..Len(game.projectiles) :
                         /\ game.projectiles[k].hostile
                         /\ game.projectiles[k].dmg = game'.damage_log[n].D
          /\ Len(game'.damage_log) = Len(game.damage_log) => PlayerKeepsHp]_vars

\* A shot of the player's has broken a crate beside the player, and the
\* explosion has hurt the player.
C13_Witness ==
    /\ pc = "update_loot"
    /\ \E n \in 1..Len(game.damage_log) : game.damage_log[n].src = "crate"
    /\ \E k \in 1..Len(game.removed) : ~game.removed[k].hostile
    /\ \E c \in 1..Len(game.crates) : ~game.crates[c].alive

\* ---- single handlers on sampled inputs
\* One shot of the player's about to reach an enemy that stands in the aura
\* of an Elite 200 px behind it: the shot's damage, pierce and infusion, the
\* enemy's hp and the Elite's aura vary.
HitStarts ==
    {[NewGame("Normal", FeatBare) EXCEPT
         !.enemies = PropagateAuras(ResetMults(
             <<NewEnemy("Enemy", 600, 20, hp, 3, 6, 135, 1),
               [NewEnemy("Elite", 800, ELITE_MULT.radius, 120, 5, 9, 120, 1)
                   EXCEPT !.aura = aura]>>), 1),
         !.projectiles = <<NewProjectile(570, 874, dmg, 900, BASIC_RADIUS, pierce,
                                         FALSE, inf)>>] :
        hp \in {40, 150}, aura \in {"haste", "guardian"}, dmg \in {1, 7, 12, 24, 100},
        pierce \in 1..2, inf \in {"none", "fire", "ice", "lightning"}}

\* The program has ended and the save file on disk is SaveDeep, whole or
\* with one of its keys gone.
LoadStarts ==
    {[NewGame("Normal", FeatBare) EXCEPT !.save_file = <<sv>>] :
        sv \in {SaveDeep} \cup {[k \in DOMAIN SaveDeep \ {gone} |-> SaveDeep[k]] :
                                    gone \in DOMAIN SaveDeep}}

\* A minion stands against the player, who has no shield, with one Elite
\* 210 px behind it: update_enemies is about to set the auras and let the
\* minion strike.
FrenzyStarts ==
    {[NewGame("Normal", FeatBare) EXCEPT
         !.player.pos = 570, !.player.iframes = 0, !.player.shield = 0,
         !.enemies = <<NewEnemy("Enemy", 590, 20, 40, lo, lo + more, 135, 1),
                       [NewEnemy("Elite", 800, ELITE_MULT.radius, 120, 5, 9, 120, 1)
                           EXCEPT !.aura = aura]>>] :
        lo \in 1..MaxRoll, more \in {0, 3}, aura \in {"frenzy", "haste"}}

\* The spawn director is about to fire in a dungeon whose second room has
\* a pillar on tile 10; the player stands in the first room, or has been
\* thrown off the map to the left or to the right.
SpawnStarts ==
    {[NewGame(dn, FeatBare) EXCEPT
         !.dungeon.tiles[10] = WALL,
         !.player.pos = pos,
         !.spawn_timer = 10] :
        dn \in Difficulties, pos \in {-684, -480, 216, 1500, 1610}}

\* The player, an Eaglehorn in hand, stands 10 px from a dropped weapon that
\* is better (Windforce) or worse (Wooden Bow) than it; the inventory holds
\* no, 39 or 40 Sturdy bows.
LootStarts ==
    {[NewGame("Normal", FeatBare) EXCEPT
         !.player.pos = 400, !.player.weapon = Eaglehorn,
         !.player.inventory = [k \in 1..fill |-> SturdyBow],
         !.loots = <<[NewLoot(410) EXCEPT !.weapon = <<w>>, !.ttl = 29000]>>] :
        fill \in {0, INV_COLS * INV_ROWS - 1, INV_COLS * INV_ROWS},
        w \in {Windforce, BowProto}}

InitUnit ==
    \/ /\ game \in LootStarts
       /\ pc = "update_loot"
       /\ dt = 16
       /\ ticks = 1
    \/ /\ game \in SpawnStarts
       /\ pc = "update_spawning"
       /\ dt = 16
       /\ ticks = 1
    \/ /\ game \in HitStarts
       /\ pc = "update_projectiles"
       /\ dt = 16
       /\ ticks = 1
    \/ /\ game \in FrenzyStarts
       /\ pc = "update_enemies"
       /\ dt = 16
       /\ ticks = 1
    \/ /\ game \in LoadStarts
       /\ pc = "quit"
       /\ dt = 16
       /\ ticks = 0

NextUnit == UpdateEnemies \/ UpdateProjectiles \/ UpdateLoot \/ UpdateSpawning \/ Continue

SpecUnit == InitUnit /\ [][NextUnit]_vars

\* The hp the shot in the list takes from the first enemy, with the fire
\* and lightning factors (fiery) or without.
ShotDamage(fiery) ==
    LET pr   == game.projectiles[1]
        m    == game.enemies[1].mult_taken
        base == (pr.dmg * m.n) \div m.d
        least == IF base < 1 THEN 1 ELSE base
    IN  CASE fiery /\ pr.infusion = "fire"      -> (least * 135) \div 100
          [] fiery /\ pr.infusion = "lightning" ->
                 IF least = 100 THEN 114 ELSE (least * 115) \div 100
          [] fiery                              -> least
          [] OTHER                              -> base

\* The example: damage 12, pierce 1, no infusion, multiplier 1.0, hp 40.
BasicCombat ==
    /\ game.projectiles[1].dmg = 12 /\ game.projectiles[1].pierce = 1
    /\ game.projectiles[1].infusion = "none"
    /\ RatEq(game.enemies[1].mult_taken, One) /\ game.enemies[1].hp = 40

\* C14 (as stated): a player projectile that hits a living enemy lowers the
\* enemy's hp by its damage times the enemy's damage-taken multiplier
\* (rounded down); in the example the enemy is left with hp 28 and the
\* projectile leaves the list.
C14_DamageScaled ==
    [][pc = "update_projectiles" /\ game.projectiles # <<>> =>
          /\ game'.enemies[1].hp = game.enemies[1].hp - ShotDamage(FALSE)
          /\ BasicCombat => game'.enemies[1].hp = 28 /\ game'.projectiles = <<>>]_vars

\* C14 (amended): the hit lowers the enemy's hp by the projectile's damage
\* times the enemy's damage-taken multiplier, rounded down and at least 1,
\* then times 1.35 (fire infusion) or 1.15 (lightning infusion), rounded
\* down as int() rounds the floating-point product (114 for 100 * 1.15); it
\* uses up one pierce, and a projectile with none left leaves the
\* list.  In the example the enemy is left with hp 28 and the projectile
\* leaves the list.
C14_DamageScaledAndInfused ==
    [][pc = "update_projectiles" /\ game.projectiles # <<>> =>
          /\ game'.enemies[1].hp = game.enemies[1].hp - ShotDamage(TRUE)
          /\ IF game.projectiles[1].pierce = 1
             THEN /\ game'.projectiles = <<>>
                  /\ Len(game'.removed) = 1 /\ game'.removed[1].hits = 1
             ELSE /\ Len(game'.projectiles) = 1
                  /\ game'.projectiles[1].pierce = game.projectiles[1].pierce - 1
          /\ BasicCombat => game'.enemies[1].hp = 28 /\ game'.projectiles = <<>>]_vars

\* The example's outcome.
C14_Witness ==
    /\ pc = "update_loot" /\ game.enemies # <<>>
    /\ game.enemies[1].hp = 28 /\ game.enemies[1].max_hp = 40
    /\ RatEq(game.enemies[1].mult_taken, One)
    /\ game.projectiles = <<>>
    /\ Len(game.removed) = 1
    /\ game.removed[1].dmg = 12 /\ game.removed[1].pierce0 = 1
    /\ game.removed[1].infusion = "none" /\ game.removed[1].hits = 1

\* The spawn timer runs out in this update_spawning step.
TimerRunsOut == pc = "update_spawning" /\ game.spawn_timer - dt <= 0

\* int(base * mult * 1.1^(wave - 1) * (1 + 0.1 * (level - 1)) * diff), mult
\* and diff in percent.
WaveStat(base, mult, wave, level, diff) ==
    FloorRat(RatMul(RatMul(RatMul(RatMul(
        [n |-> Pow(11, wave - 1), d |-> Pow(10, wave - 1)],
        9 + level, 10), base, 1), mult, 100), diff, 100))

\* Enemy e has the hp and damage of a spawn at the given wave; for a
\* treasure goblin and a boss, whose stats the code computes without the
\* wave counter, the wave curve is put on top of them (curved) or not.
SpawnedAtWave(e, wave, curved) ==
    LET L  == game'.current_level
        df == game'.diff
        w  == IF curved THEN wave ELSE 1
        bs == 10 + (L \div 5 - 1) * 3
    IN  CASE e.cls = "Enemy" ->
               /\ e.max_hp = WaveStat(ENEMY_BASE_HP, 100, wave, L, df.enemy_hp)
               /\ e.dmg_min = WaveStat(ENEMY_BASE_DMG[1], 100, wave, L, df.enemy_dmg)
               /\ e.dmg_max = WaveStat(ENEMY_BASE_DMG[2], 100, wave, L, df.enemy_dmg)
          [] e.cls = "Elite" ->
               /\ e.max_hp = WaveStat(ENEMY_BASE_HP, ELITE_MULT.hp, wave, L, df.enemy_hp)
               /\ e.dmg_min = WaveStat(ENEMY_BASE_DMG[1], ELITE_MULT.dmg, wave, L, df.enemy_dmg)
               /\ e.dmg_max = WaveStat(ENEMY_BASE_DMG[2], ELITE_MULT.dmg, wave, L, df.enemy_dmg)
          [] e.cls = "TreasureGoblin" ->
               e.max_hp = WaveStat(50, 100, w, L, 100)
          [] OTHER ->
               e.max_hp = FloorRat(RatMul([n |-> Pow(11, w - 1), d |-> Pow(10, w - 1)],
                                          BOSS_HP * df.enemy_hp * bs, 1000))

\* The wave counter and the timer over one step: the counter goes up by 1
\* and the timer back to SPAWN_INTERVAL when the timer runs out and the
\* spawning is not cut short by an exception of a position draw, the
\* counter changes otherwise only to 1 with a level transition, and every
\* enemy the step creates has the stats of the counter as the earlier steps
\* left it.
WaveStep(curved) ==
    /\ TimerRunsOut /\ ~game'.raised =>
                       /\ game'.wave = game.wave + 1
                       /\ game'.spawn_timer = SPAWN_INTERVAL
    /\ game'.wave # game.wave =>
          \/ TimerRunsOut
          \/ game'.current_level = game.current_level + 1 /\ game'.wave = 1
    /\ pc = "update_spawning" =>
          \A i \in (Len(game.enemies) + 1)..Len(game'.enemies) :
              SpawnedAtWave(game'.enemies[i], game.wave, curved)

C16_DeathStateMachine ==
    [][/\ pc' = "death_screen" => game'.player.hp <= 0
       /\ game'.player.lives \in 0..game'.player.max_lives
       /\ pc = "death_screen" =>
             LET p == game.player
                 q == game'.player
             IN  \/ /\ pc' = "quit"
                    /\ game'.save_file # <<>> /\ q = p
                 \/ /\ pc' = "tick" /\ p.lives > 0
                    /\ q.lives = p.lives - 1
                    /\ q.gold = p.gold
                    /\ game'.spawn_timer = game.spawn_timer
                    /\ q.hp = max_hp(q) /\ q.max_lives = p.max_lives
                 \/ /\ pc' = "tick" /\ p.lives = 0
                    /\ q.lives = p.max_lives
                    /\ q.pos = FirstRoomCentre(game.dungeon)
                    /\ game'.enemies = <<>>
                    /\ q.gold = p.gold - p.gold \div 4
                    /\ game'.spawn_timer = 2 * SPAWN_INTERVAL
                    /\ q.hp = max_hp(q) /\ q.max_lives = p.max_lives]_vars

\* The player, dead on the last life, has gone back to the first room of
\* the level, with three lives again and 30 of 40 gold.
C16_Witness ==
    /\ pc = "tick" /\ ticks >= 1
    /\ game.player.lives = 3 /\ game.player.max_lives = 3
    /\ game.player.pos = FirstRoomCentre(game.dungeon)
    /\ game.player.hp = max_hp(game.player) /\ game.player.iframes = 2000
    /\ game.player.gold = 30
    /\ game.enemies = <<>> /\ game.spawn_timer = 2 * SPAWN_INTERVAL

\* The loaded game holds value v for key k of the save file (hp: v, or
\* max_hp with the saved weapon or with the Wooden Bow of a new Player).
Restored(g, k, v) ==
    CASE k = "level"         -> g.player.level = v
      [] k = "xp"            -> g.player.xp = v
      [] k = "xp_to_next"    -> g.player.xp_to_next = v
      [] k = "gold"          -> g.player.gold = v
      [] k = "hp"            -> \/ g.player.hp = v
                                \/ g.player.hp = max_hp(g.player)
                                \/ g.player.hp = max_hp([g.player EXCEPT !.weapon = BowProto])
      [] k = "potions_hp"    -> g.player.potions_hp = v
      [] k = "strength"      -> g.player.strength = v
      [] k = "dexterity"     -> g.player.dexterity = v
      [] k = "vitality"      -> g.player.vitality = v
      [] k = "energy"        -> g.player.energy = v
      [] k = "stat_points"   -> g.player.stat_points = v
      [] k = "dodge"         -> g.player.dodge = v
      [] k = "life_leech"    -> g.player.life_leech = v
      [] k = "lives"         -> g.player.lives = v
      [] k = "max_lives"     -> g.player.max_lives = v
      [] k = "weapon"        -> g.player.weapon = v
      [] k = "inventory"     -> g.player.inventory = v
      [] k = "current_level" -> g.current_level = v /\ g.dungeon.level = v
      [] k = "current_biome" -> g.current_biome = v /\ g.dungeon.biome = v
      [] k = "wave"          -> g.wave = v
      [] k = "kills"         -> g.kills = v
      [] k = "difficulty"    -> g.difficulty_name = v /\ g.diff = DIFFICULTY[v]

\* The values of a new game: what a key the file lacks defaults to.
SaveDefaults ==
    [level |-> 1, xp |-> 0, xp_to_next |-> 40, gold |-> 0, hp |-> 1000,
     potions_hp |-> 1, strength |-> BASE_STATS.strength,
     dexterity |-> BASE_STATS.dexterity, vitality |-> BASE_STATS.vitality,
     energy |-> BASE_STATS.energy, stat_points |-> 0, dodge |-> 0,
     life_leech |-> 0, lives |-> 3, max_lives |-> 3, weapon |-> BowProto,
     inventory |-> <<>>, current_level |-> 1, current_biome |-> "crypt",
     wave |-> 1, kills |-> 0, difficulty |-> "Normal"]

\* C17: loading a save file that lacks at most one key does not fail; the
\* game then holds the default for that key (hp: max_hp) and the file's
\* value for every other key.
C17_LoadDefaultsMissing ==
    [][pc = "quit" =>
          LET sv == game.save_file[1]
          IN  /\ ~game'.load_failed
              /\ \A k \in DOMAIN SaveDefaults :
                    Restored(game', k, IF k \in DOMAIN sv THEN sv[k]
                                       ELSE SaveDefaults[k])]_vars

\* C18: a load right after the save gives back the player's stats, hp,
\* weapon and inventory, and the depth, biome, wave and kill counters of the
\* game that was saved.
C18_SaveLoadRoundTrip ==
    [][pc = "quit" =>
          LET p == game.player
              q == game'.player
          IN  /\ ~game'.load_failed
              /\ q.level = p.level /\ q.xp = p.xp /\ q.xp_to_next = p.xp_to_next
              /\ q.gold = p.gold /\ q.potions_hp = p.potions_hp
              /\ q.strength = p.strength /\ q.dexterity = p.dexterity
              /\ q.vitality = p.vitality /\ q.energy = p.energy
              /\ q.stat_points = p.stat_points
              /\ q.dodge = p.dodge /\ q.life_leech = p.life_leech
              /\ q.lives = p.lives /\ q.max_lives = p.max_lives
              /\ q.hp = p.hp
              /\ q.weapon = p.weapon /\ q.inventory = p.inventory
              /\ game'.current_level = game.current_level
              /\ game'.current_biome = game.current_biome
              /\ game'.wave = game.wave /\ game'.kills = game.kills]_vars

\* The player's timers the model carries.
PlayerTimers(p) == <<p.basic_cd, p.iframes, p.dmg_timer, p.infusion_timer>>

\* C19: update_player leaves each of the player's timers at
\* max(0, previous value - dt), and at the end of a frame none is negative.
C19_TimersClamped ==
    [][/\ pc = "update_player" =>
             \A t \in 1..4 :
                 PlayerTimers(game'.player)[t] =
                     IF PlayerTimers(game.player)[t] - dt > 0
                     THEN PlayerTimers(game.player)[t] - dt ELSE 0
       /\ pc' = "tick" => \A t \in 1..4 : PlayerTimers(game'.player)[t] >= 0]_vars

\* The minion of the first slot struck the player in this update, and the
\* auras update_enemies set gave it the frenzy factor once and no other.
FrenzyStruck ==
    /\ Len(game.aura_snapshot) >= 1
    /\ game.aura_snapshot[1].cls = "Enemy"
    /\ RatEq(game.aura_snapshot[1].mult_damage, [n |-> 135, d |-> 100])
    /\ Len(game.damage_log) = 1
    /\ game.damage_log[1].src = "touch"

\* What the struck minion's roll returns with no aura on it.
Unbuffed(high) == roll_damage([game.aura_snapshot[1] EXCEPT !.mult_damage = One], high)

\* C20: the roll of a minion under one frenzy aura is exactly 1.35 times
\* what it returns un-buffed for the same base roll.
C20_FrenzyExact ==
    FrenzyStruck =>
        \E high \in BOOLEAN : game.damage_log[1].D * 100 = 135 * Unbuffed(high)

\* C20 as the code has it: the roll of a minion under one frenzy aura is
\* 1.35 times what it returns un-buffed for the same base roll, rounded
\* down to a whole number.
C20_FrenzyRoundedDown ==
    FrenzyStruck =>
        \E high \in BOOLEAN : game.damage_log[1].D = (135 * Unbuffed(high)) \div 100

\* A frenzied minion has struck with a roll whose 1.35-fold is no whole
\* number (3 gives 4), and the player lost that much.
C20_Witness ==
    /\ FrenzyStruck
    /\ game.aura_snapshot[1].dmg_min = 3
    /\ game.aura_snapshot[1].dmg_max = 3
    /\ game.damage_log[1].D = 4
    /\ game.damage_log[1].hp1 = game.damage_log[1].hp0 - 4

\* ------------------------------------------- C21: the sweep of the dead
\* The enemies of list es that satisfy Test.
Count(es, Test(_)) == Len(SelectSeq(es, Test))

\* Enemy e will come out of this call of update_enemies alive.
Survives(e) ==
    /\ e.alive
    /\ e.hp > 0
    /\ ~(e.cls = "TreasureGoblin" /\ e.portal_timer - dt <= 0)

SpawnReturned == pc = "update_effects"

\* C22 (as stated): position sampling for a spawn always terminates: each
\* call makes at most max_tries attempts and then returns the fallback
\* offset position, and a spawn request never keeps the tick from going on.
C22_SamplingTerminates ==
    [][pc = "update_spawning" =>
          /\ SpawnReturned'
          /\ \A k \in 1..Len(game'.samplings) :
                LET s == game'.samplings[k]
                IN  /\ s.tries <= MAX_TRIES
                    /\ s.tries = MAX_TRIES =>
                          s.fallback /\ Abs(s.pos - game.player.pos) <= 240]_vars

\* ======================================================================
\* Tetros (src/Tetros.py), a second program of the repository. Its
\* specification SpecTetros uses the same four variables: game holds the
\* fields of the Tetros object, pc is "run" while Tetros.run loops, dt is the
\* dt_ms of the last update and ticks counts the calls made so far.
\* Times are in ms (drop_timer and gravity are seconds in the source).
\* ======================================================================

COLS == 10
ROWS == 22
MOVE_REPEAT_DELAY == 150
MOVE_REPEAT_RATE == 35
SOFT_DROP_RATE == 30
GRAVITY_MIN == 50
CLEAR_FLASH_MS == 80
CLEAR_FLASH_CYCLES == 6

SCORES == <<40, 100, 300, 1200>>
GRAVITY_BY_LEVEL == <<800, 720, 630, 550, 470, 380, 300, 220, 140, 100>>

\* Rotation states of every kind, cells (cx, cy) of a 4 x 4 box.
PIECES ==
    [I |-> <<{<<0, 2>>, <<1, 2>>, <<2, 2>>, <<3, 2>>},
            {<<2, 0>>, <<2, 1>>, <<2, 2>>, <<2, 3>>},
            {<<0, 2>>, <<1, 2>>, <<2, 2>>, <<3, 2>>},
            {<<2, 0>>, <<2, 1>>, <<2, 2>>, <<2, 3>>}>>,
     J |-> <<{<<0, 1>>, <<0, 2>>, <<1, 2>>, <<2, 2>>},
            {<<1, 0>>, <<2, 0>>, <<1, 1>>, <<1, 2>>},
            {<<0, 1>>, <<1, 1>>, <<2, 1>>, <<2, 2>>},
            {<<1, 0>>, <<1, 1>>, <<0, 2>>, <<1, 2>>}>>,
     L |-> <<{<<2, 1>>, <<0, 2>>, <<1, 2>>, <<2, 2>>},
            {<<1, 0>>, <<1, 1>>, <<1, 2>>, <<2, 2>>},
            {<<0, 1>>, <<1, 1>>, <<2, 1>>, <<0, 2>>},
            {<<0, 0>>, <<1, 0>>, <<1, 1>>, <<1, 2>>}>>,
     O |-> <<{<<1, 1>>, <<2, 1>>, <<1, 2>>, <<2, 2>>},
            {<<1, 1>>, <<2, 1>>, <<1, 2>>, <<2, 2>>},
            {<<1, 1>>, <<2, 1>>, <<1, 2>>, <<2, 2>>},
            {<<1, 1>>, <<2, 1>>, <<1, 2>>, <<2, 2>>}>>,
     S |-> <<{<<1, 1>>, <<2, 1>>, <<0, 2>>, <<1, 2>>},
            {<<1, 0>>, <<1, 1>>, <<2, 1>>, <<2, 2>>},
            {<<1, 1>>, <<2, 1>>, <<0, 2>>, <<1, 2>>},
            {<<1, 0>>, <<1, 1>>, <<2, 1>>, <<2, 2>>}>>,
     T |-> <<{<<1, 1>>, <<0, 2>>, <<1, 2>>, <<2, 2>>},
            {<<1, 0>>, <<1, 1>>, <<2, 1>>, <<1, 2>>},
            {<<0, 1>>, <<1, 1>>, <<2, 1>>, <<1, 2>>},
            {<<1, 0>>, <<0, 1>>, <<1, 1>>, <<1, 2>>}>>,
     Z |-> <<{<<0, 1>>, <<1, 1>>, <<1, 2>>, <<2, 2>>},
            {<<2, 0>>, <<1, 1>>, <<2, 1>>, <<1, 2>>},
            {<<0, 1>>, <<1, 1>>, <<1, 2>>, <<2, 2>>},
            {<<2, 0>>, <<1, 1>>, <<2, 1>>, <<1, 2>>}>>]

\* None in a board cell or in the hold slot.
NoKind == ""

Piece(kind, rot, x, y) == [kind |-> kind, rot |-> rot, x |-> x, y |-> y, locked |-> FALSE]

cells(p) == {<<p.x + c[1], p.y + c[2]>> : c \in PIECES[p.kind][p.rot + 1]}

\* Bag7.next: a fresh shuffle sh when the bag is empty, then pop from the end.
BagNext(bag, sh) ==
    LET b == IF bag = <<>> THEN sh ELSE bag
    IN  [kind |-> b[Len(b)], bag |-> SubSeq(b, 1, Len(b) - 1)]

valid(board, p) ==
    \A c \in cells(p) :
        /\ c[1] >= 0 /\ c[1] < COLS /\ c[2] >= 0 /\ c[2] < ROWS
        /\ board[c[2] + 1][c[1] + 1] = NoKind

spawn_piece(t, sh) ==
    LET nx == BagNext(t.bag, sh)
        p  == Piece(Head(t.queue), 0, 3, 0)
    IN  [t EXCEPT !.queue = Append(Tail(@), nx.kind),
                  !.bag = nx.bag,
                  !.cur = p,
                  !.game_over = @ \/ ~valid(t.board, p)]

lock_piece(t) ==
    [t EXCEPT !.board = [y \in 1..ROWS |-> [x \in 1..COLS |->
                            IF <<x - 1, y - 1>> \in cells(t.cur) THEN t.cur.kind
                            ELSE t.board[y][x]]],
              !.cur.locked = TRUE]

get_full_lines(board) ==
    SelectSeq([i \in 1..ROWS |-> i - 1],
              LAMBDA y : \A x \in 1..COLS : board[y + 1][x] # NoKind)

start_clear_animation(t, rows) ==
    [t EXCEPT !.clearing_rows = rows,
              !.clear_flash_elapsed = 0,
              !.clear_flash_count = 0,
              !.flash_on = TRUE,
              !.pending_spawn = TRUE,
              !.flashes = 0]

EmptyRow == [x \in 1..COLS |-> NoKind]

\* The board without the rows in rows, empty rows inserted at the top.
Collapsed(board, rows) ==
    LET idx  == SelectSeq([i \in 1..ROWS |-> i],
                          LAMBDA i : \A k \in 1..Len(rows) : rows[k] # i - 1)
    IN  [k \in 1..(ROWS - Len(idx)) |-> EmptyRow] \o [k \in 1..Len(idx) |-> board[idx[k]]]

finalize_clear(t) ==
    [t EXCEPT !.board = Collapsed(t.board, t.clearing_rows),
              !.clearing_rows = <<>>,
              !.flash_on = FALSE]

KICKS == <<<<0, 0>>, <<-1, 0>>, <<1, 0>>, <<0, -1>>, <<-2, 0>>, <<2, 0>>>>

Kicked(cur, rot, k) == Piece(cur.kind, rot, cur.x + KICKS[k][1], cur.y + KICKS[k][2])

\* The rotation is kept without a free kick too.
rotate_unchecked(t, cw, half) ==
    [t EXCEPT !.cur.rot = (@ + (IF half THEN 2 ELSE IF cw THEN 1 ELSE 3)) % 4]

rotate(t, cw, half) ==
    IF t.cur.kind = "O" /\ ~half THEN t
    ELSE LET rot == (t.cur.rot + (IF half THEN 2 ELSE IF cw THEN 1 ELSE 3)) % 4
             ok  == {k \in 1..Len(KICKS) : valid(t.board, Kicked(t.cur, rot, k))}
         IN  IF ok = {} THEN t
             ELSE [t EXCEPT !.cur = Kicked(t.cur, rot, CHOOSE k \in ok : \A j \in ok : k <= j)]

Moved(t, dx, dy) == valid(t.board, Piece(t.cur.kind, t.cur.rot, t.cur.x + dx, t.cur.y + dy))

move(t, dx, dy) ==
    IF Moved(t, dx, dy)
    THEN [t EXCEPT !.cur = Piece(t.cur.kind, t.cur.rot, t.cur.x + dx, t.cur.y + dy)]
    ELSE t

handle_scoring(t, cleared, hard_drop_, drop_distance) ==
    LET t1     == IF hard_drop_ THEN [t EXCEPT !.score = @ + 2 * drop_distance] ELSE t
        base   == IF cleared \in 1..4 THEN SCORES[cleared] ELSE 0
        gained == IF cleared = 4 /\ t.b2b THEN ((t.level + 1) * base * 3) \div 2
                  ELSE (t.level + 1) * base
        lines  == t.lines + cleared
        level  == lines \div 10
    IN  IF cleared > 0
        THEN [t1 EXCEPT !.score = @ + gained,
                        !.lines = lines,
                        !.combo = IF @ >= 0 THEN @ + 1 ELSE 0,
                        !.b2b = (cleared = 4),
                        !.level = level,
                        !.gravity = IF level # t.level
                                    THEN Max(GRAVITY_MIN,
                                             GRAVITY_BY_LEVEL[Min(level, Len(GRAVITY_BY_LEVEL) - 1) + 1]
                                                - 20 * level)
                                    ELSE @]
        ELSE [t1 EXCEPT !.combo = -1]

\* while self.move(0, 1): dist += 1
RECURSIVE DropDist(_, _)
DropDist(board, p) ==
    IF valid(board, Piece(p.kind, p.rot, p.x, p.y + 1))
    THEN 1 + DropDist(board, Piece(p.kind, p.rot, p.x, p.y + 1))
    ELSE 0

\* hard_drop after the lock: rows are the full lines of the locked board.
HardLocked(t, rows, dist, sh) ==
    IF rows # <<>>
    THEN [start_clear_animation(t, rows) EXCEPT !.pending_cleared_count = Len(rows),
                                                !.score = @ + 2 * dist]
    ELSE spawn_piece([t EXCEPT !.score = @ + 2 * dist, !.hold_used = FALSE], sh)

HardDropped(t, dist, sh) ==
    HardLocked(lock_piece(t), get_full_lines(lock_piece(t).board), dist, sh)

\* A hard drop that does not look at the clear animation.
hard_drop_any(t, sh) ==
    HardDropped(IF DropDist(t.board, t.cur) = 0 THEN t
                ELSE [t EXCEPT !.cur = Piece(@.kind, @.rot, @.x, @.y + DropDist(t.board, t.cur))],
                DropDist(t.board, t.cur), sh)

hard_drop(t, sh) ==
    IF t.clearing_rows # <<>> THEN t
    ELSE HardDropped(IF DropDist(t.board, t.cur) = 0 THEN t
                     ELSE [t EXCEPT !.cur = Piece(@.kind, @.rot, @.x, @.y + DropDist(t.board, t.cur))],
                     DropDist(t.board, t.cur), sh)

hold_piece(t, sh) ==
    IF t.hold_used \/ t.clearing_rows # <<>> THEN t
    ELSE IF t.hold = NoKind
         THEN spawn_piece([t EXCEPT !.hold_used = TRUE, !.hold = t.cur.kind], sh)
         ELSE [t EXCEPT !.hold_used = TRUE,
                        !.hold = t.cur.kind,
                        !.cur = Piece(t.hold, 0, 3, 0),
                        !.game_over = @ \/ ~valid(t.board, Piece(t.hold, 0, 3, 0))]

\* update, the branch of a running clear animation at the last flash.
Collapse(t, sh) ==
    [spawn_piece([handle_scoring(finalize_clear(t), Len(t.clearing_rows), FALSE, 0)
                     EXCEPT !.hold_used = FALSE], sh)
        EXCEPT !.clear_flash_count = 0,
               !.clear_flash_elapsed = 0,
               !.flash_on = FALSE]

\* while self.clear_flash_elapsed >= CLEAR_FLASH_MS
RECURSIVE FlashLoop(_, _)
FlashLoop(t, sh) ==
    IF t.clear_flash_elapsed < CLEAR_FLASH_MS THEN t
    ELSE IF t.flash_on
         THEN FlashLoop([t EXCEPT !.clear_flash_elapsed = @ - CLEAR_FLASH_MS,
                                  !.flash_on = FALSE], sh)
         ELSE IF t.clear_flash_count + 1 >= CLEAR_FLASH_CYCLES
              THEN Collapse([t EXCEPT !.clear_flash_elapsed = @ - CLEAR_FLASH_MS,
                                      !.flash_on = TRUE,
                                      !.clear_flash_count = @ + 1,
                                      !.flashes = @ + 1], sh)
              ELSE FlashLoop([t EXCEPT !.clear_flash_elapsed = @ - CLEAR_FLASH_MS,
                                       !.flash_on = TRUE,
                                       !.clear_flash_count = @ + 1,
                                       !.flashes = @ + 1], sh)

\* The piece could not fall: lock it; rows are the full lines after the lock.
Landed(t, rows, sh) ==
    IF rows # <<>>
    THEN [start_clear_animation(t, rows) EXCEPT !.pending_cleared_count = Len(rows)]
    ELSE spawn_piece([handle_scoring(t, 0, FALSE, 0) EXCEPT !.hold_used = FALSE], sh)

\* while self.drop_timer >= self.gravity
RECURSIVE GravityLoop(_, _)
GravityLoop(t, sh) ==
    IF t.drop_timer < t.gravity THEN t
    ELSE IF Moved(t, 0, 1)
         THEN GravityLoop(move([t EXCEPT !.drop_timer = @ - t.gravity], 0, 1), sh)
         ELSE Landed(lock_piece([t EXCEPT !.drop_timer = @ - t.gravity]),
                     get_full_lines(lock_piece(t).board), sh)

\* The key repeat of update: left, right, soft drop; now is pygame's clock.
RepeatLeft(t) ==
    IF ~t.left_held THEN t
    ELSE IF t.left_timer = 0 THEN [move(t, -1, 0) EXCEPT !.left_timer = t.now + MOVE_REPEAT_DELAY]
    ELSE IF t.now >= t.left_timer THEN [move(t, -1, 0) EXCEPT !.left_timer = @ + MOVE_REPEAT_RATE]
    ELSE t

RepeatRight(t) ==
    IF ~t.right_held THEN t
    ELSE IF t.right_timer = 0 THEN [move(t, 1, 0) EXCEPT !.right_timer = t.now + MOVE_REPEAT_DELAY]
    ELSE IF t.now >= t.right_timer THEN [move(t, 1, 0) EXCEPT !.right_timer = @ + MOVE_REPEAT_RATE]
    ELSE t

SoftDrop(t) == [move(t, 0, 1) EXCEPT !.score = IF Moved(t, 0, 1) THEN @ + 1 ELSE @]

RepeatDown(t) ==
    IF ~t.down_held THEN t
    ELSE IF t.down_timer = 0 THEN [SoftDrop(t) EXCEPT !.down_timer = t.now + SOFT_DROP_RATE]
    ELSE IF t.now >= t.down_timer THEN [SoftDrop(t) EXCEPT !.down_timer = @ + SOFT_DROP_RATE]
    ELSE t

update(t, dt_ms, sh) ==
    IF t.game_over \/ t.paused THEN t
    ELSE IF t.clearing_rows # <<>>
         THEN FlashLoop([t EXCEPT !.clear_flash_elapsed = @ + dt_ms], sh)
         ELSE RepeatDown(RepeatRight(RepeatLeft(
                  GravityLoop([t EXCEPT !.drop_timer = @ + dt_ms], sh))))

\* The object after reset() with the shuffle sh of its new bag; now is the
\* clock of pygame, restarts counts the calls of reset after the first one.
Fresh(sh) ==
    [board |-> [y \in 1..ROWS |-> EmptyRow],
     bag |-> SubSeq(sh, 1, 1),
     hold |-> NoKind,
     hold_used |-> FALSE,
     queue |-> <<sh[6], sh[5], sh[4], sh[3], sh[2]>>,
     cur |-> Piece(sh[7], 0, 3, 0),
     drop_timer |-> 0,
     gravity |-> GRAVITY_BY_LEVEL[1],
     level |-> 0,
     lines |-> 0,
     score |-> 0,
     combo |-> -1,
     b2b |-> FALSE,
     game_over |-> FALSE,
     paused |-> FALSE,
     left_held |-> FALSE, right_held |-> FALSE,
     left_timer |-> 0, right_timer |-> 0,
     down_held |-> FALSE, down_timer |-> 0,
     clearing_rows |-> <<>>,
     clear_flash_elapsed |-> 0,
     clear_flash_count |-> 0,
     flash_on |-> FALSE,
     pending_spawn |-> FALSE,
     pending_cleared_count |-> 0,
     flashes |-> 0,
     now |-> 0,
     restarts |-> 0]

reset(t, sh) == [Fresh(sh) EXCEPT !.now = t.now, !.restarts = t.restarts + 1]

KeyDown(t, key, sh) ==
    IF key = "LEFT" THEN [t EXCEPT !.left_held = TRUE, !.left_timer = 0]
    ELSE IF key = "RIGHT" THEN [t EXCEPT !.right_held = TRUE, !.right_timer = 0]
    ELSE IF key = "DOWN" THEN [t EXCEPT !.down_held = TRUE, !.down_timer = 0]
    ELSE IF key = "z" THEN rotate(t, FALSE, FALSE)
    ELSE IF key \in {"x", "UP"} THEN rotate(t, TRUE, FALSE)
    ELSE IF key = "a" THEN rotate(t, TRUE, TRUE)
    ELSE IF key = "SPACE" THEN hard_drop(t, sh)
    ELSE IF key = "c" THEN hold_piece(t, sh)
    ELSE t

Restarted(t, key, sh) ==
    IF key = "r" THEN reset(t, sh)
    ELSE IF key = "p" THEN [t EXCEPT !.paused = ~@]
    ELSE t

handle_event(t, e, sh) ==
    IF e.type = "KEYDOWN"
    THEN IF Restarted(t, e.key, sh).game_over \/ Restarted(t, e.key, sh).paused
         THEN Restarted(t, e.key, sh)
         ELSE KeyDown(Restarted(t, e.key, sh), e.key, sh)
    ELSE IF e.key = "LEFT" THEN [t EXCEPT !.left_held = FALSE, !.left_timer = 0]
    ELSE IF e.key = "RIGHT" THEN [t EXCEPT !.right_held = FALSE, !.right_timer = 0]
    ELSE IF e.key = "DOWN" THEN [t EXCEPT !.down_held = FALSE, !.down_timer = 0]
    ELSE t

\* ---- bounds and sample inputs of the Tetros specification ----

\* Calls of handle_event and update in one run.
MaxSteps == 4

\* random.shuffle of a new bag.
Shuffles == {<<"I", "J", "L", "O", "S", "T", "Z">>, <<"Z", "O", "T", "S", "J", "L", "I">>}

\* clock.tick(FPS): a frame of 60 FPS and a frame after a stall.
TetrosFrames == {16, 1000}

Events ==
    {[type |-> "KEYDOWN", key |-> k] :
        k \in {"p", "r", "LEFT", "RIGHT", "DOWN", "z", "x", "a", "SPACE", "c"}}
    \cup {[type |-> "KEYUP", key |-> k] : k \in {"LEFT", "RIGHT", "DOWN"}}

\* Row y of a board filled with kind but for the columns in open.
FilledRow(kind, open) == [x \in 1..COLS |-> IF x - 1 \in open THEN NoKind ELSE kind]

\* A game in progress: the rows from top down are filled but for the columns
\* in open, the active piece is a fresh piece of the given kind.
Stacked(top, open, kind, hold) ==
    [Fresh(<<"I", "J", "L", "O", "S", "T", "Z">>)
        EXCEPT !.board = [y \in 1..ROWS |-> IF y - 1 >= top THEN FilledRow("J", open) ELSE EmptyRow],
               !.cur = Piece(kind, 0, 3, 0),
               !.hold = hold]

TetrosStarts ==
    {Fresh(sh) : sh \in Shuffles}
    \cup {Stacked(21, {3, 4, 5, 6}, "I", NoKind),
          Stacked(20, {4, 5}, "O", "T"),
          Stacked(3, {0, 1, 2, 7, 8, 9}, "I", "O")}

InitTetros ==
    /\ game \in TetrosStarts
    /\ pc = "run"
    /\ dt = 0
    /\ ticks = 0

\* for e in pygame.event.get(): self.handle_event(e)
HandleEvent ==
    /\ pc = "run"
    /\ ticks < MaxSteps
    /\ \E e \in Events : \E sh \in Draws(Shuffles, game.bag = <<>> \/ e.key = "r") :
          game' = handle_event(game, e, sh)
    /\ ticks' = ticks + 1
    /\ UNCHANGED <<pc, dt>>

\* dt = self.clock.tick(FPS); ...; self.update(dt)
Update ==
    /\ pc = "run"
    /\ ticks < MaxSteps
    /\ \E t \in TetrosFrames : \E sh \in Draws(Shuffles, game.bag = <<>>) :
          /\ game' = update([game EXCEPT !.now = @ + t], t, sh)
          /\ dt' = t
    /\ ticks' = ticks + 1
    /\ UNCHANGED pc

NextTetros == HandleEvent \/ Update

SpecTetros == InitTetros /\ [][NextTetros]_vars

\* ---- C23 ----

Clearing(t) == t.clearing_rows # <<>>

\* C23: within one game (no restart), rows completed by a locked piece stay
\* on the board through the flash animation: while it runs the completed
\* rows are the full rows of the board, a hard drop and a hold leave the
\* object as it is, update moves no piece and runs no gravity timer, and a
\* step that leaves the animation running changes neither board, score, lines
\* nor queue; the step that ends it comes after CLEAR_FLASH_CYCLES flashes and
\* removes the rows, scores them and makes the head of the queue the piece.
C23_ClearAfterFlashes ==
    [][Clearing(game) /\ game'.restarts = game.restarts =>
          /\ game.clearing_rows = get_full_lines(game.board)
          /\ \A sh \in Shuffles : hard_drop(game, sh) = game /\ hold_piece(game, sh) = game
          /\ \A t \in TetrosFrames : \A sh \in Shuffles :
                Clearing(update(game, t, sh)) =>
                    /\ update(game, t, sh).cur = game.cur
                    /\ update(game, t, sh).drop_timer = game.drop_timer
          /\ IF Clearing(game')
             THEN /\ game'.board = game.board
                  /\ game'.clearing_rows = game.clearing_rows
                  /\ game'.score = game.score
                  /\ game'.lines = game.lines
                  /\ game'.queue = game.queue
                  /\ game'.hold = game.hold
                  /\ game'.flashes < CLEAR_FLASH_CYCLES
             ELSE /\ game'.flashes = CLEAR_FLASH_CYCLES
                  /\ game'.board = Collapsed(game.board, game.clearing_rows)
                  /\ game'.lines = game.lines + Len(game.clearing_rows)
                  /\ game'.score = game.score + (game.level + 1) * SCORES[Len(game.clearing_rows)]
                  /\ game'.cur = Piece(Head(game.queue), 0, 3, 0)]_vars

\* A clear animation that ran over several calls has ended in this game.
C23_Witness ==
    /\ pc = "run"
    /\ game.restarts = 0
    /\ ticks >= 3
    /\ game.lines > 0
    /\ game.flashes = CLEAR_FLASH_CYCLES
    /\ ~Clearing(game)

\* ---- C29 ----

\* C29: whenever the game is not over and no clear animation is running,
\* every cell of the active piece is inside the COLS x ROWS board and on an
\* empty board cell.
C29_ActivePieceValid ==
    pc = "run" /\ ~game.game_over /\ ~Clearing(game) => valid(game.board, game.cur)

\* The active piece has been turned and shifted, a piece has been locked
\* before it, and the game goes on.
C29_Witness ==
    /\ pc = "run"
    /\ ~game.game_over /\ ~Clearing(game)
    /\ game.cur.rot # 0 /\ game.cur.x # 3
    /\ \E y \in 1..ROWS : \E x \in 1..COLS : game.board[y][x] \in {"I", "O", "Z"}

\* ======================================================================
\* The usage dashboard (src/unnamed/part_000, "Claude Usage Stats.py").
\* Its specification SpecDash uses the same four variables: game holds the
\* fields of the UsageStatsDashboard object, the data file and the clock,
\* pc is "mainloop" until the window is destroyed, dt is the time that
\* passed last and ticks counts the operations so far. Times are in s.
\* ======================================================================

DEFAULT_DATA == [sessions |-> <<>>, daily |-> <<>>]

DAY == 86400

\* datetime.now().strftime("%Y-%m-%d"), as the number of the day.
Today(a) == a.now \div DAY

\* daily.get(day): the entry of the day in a list of entries, 0 if there is none.
DayIndex(daily, d) ==
    IF \E i \in 1..Len(daily) : daily[i].date = d
    THEN CHOOSE i \in 1..Len(daily) : daily[i].date = d
    ELSE 0

\* daily.setdefault(today, {"messages": 0, "tokens": 0, "duration": 0})
SetDefault(daily, d) ==
    IF DayIndex(daily, d) # 0 THEN daily
    ELSE Append(daily, [date |-> d, messages |-> 0, tokens |-> 0, duration |-> 0])

\* day["messages"] += messages; day["tokens"] += tokens; day["duration"] += duration
AddToDay(daily, d, messages, tokens, duration) ==
    [SetDefault(daily, d) EXCEPT ![DayIndex(SetDefault(daily, d), d)] =
        [@ EXCEPT !.messages = @ + messages, !.tokens = @ + tokens, !.duration = @ + duration]]

save_data(a) == [a EXCEPT !.file = a.data]

\* The amounts of a day that came in through the log form or a quick-log
\* button (kept beside the object to be compared with the stored totals).
Logged(a, messages, tokens) ==
    [a EXCEPT !.logged = AddToDay(@, Today(a), messages, tokens, 0)]

\* The object after __init__ with no data file, at time now.
NewDashboard(now) ==
    [data |-> DEFAULT_DATA,
     file |-> DEFAULT_DATA,
     session_active |-> FALSE,
     session_start |-> -1,
     session_messages |-> 0,
     session_tokens |-> 0,
     elapsed |-> 0,
     now |-> now,
     logged |-> <<>>]

_end_session(a) ==
    LET elapsed == IF a.session_start >= 0 THEN a.now - a.session_start ELSE 0
    IN  save_data([a EXCEPT !.session_active = FALSE,
                            !.elapsed = elapsed,
                            !.data.sessions = Append(@, [date |-> a.now \div 60,
                                                         messages |-> a.session_messages,
                                                         tokens |-> a.session_tokens,
                                                         duration |-> elapsed]),
                            !.data.daily = AddToDay(@, Today(a), a.session_messages,
                                                    a.session_tokens, elapsed)])

_toggle_session(a) ==
    IF ~a.session_active
    THEN [a EXCEPT !.session_active = TRUE, !.session_start = a.now]
    ELSE _end_session(a)

_reset_session(a) ==
    [a EXCEPT !.session_active = FALSE,
              !.session_start = -1,
              !.session_messages = 0,
              !.session_tokens = 0,
              !.elapsed = 0]

_quick_log(a, messages, tokens) ==
    save_data(Logged([a EXCEPT !.session_messages = @ + messages,
                               !.session_tokens = @ + tokens,
                               !.data.daily = AddToDay(@, Today(a), messages, tokens, 0)],
                     messages, tokens))

\* int(entry.get()) on the sampled texts of an entry: the number, or
\* a ValueError for a text that is no integer.
Entries == {"1000", "2", " 7 ", "-5", "0", "", "2.5", "abc"}

IntOf(text) ==
    CASE text = "1000" -> [ValueError |-> FALSE, n |-> 1000]
      [] text = "2" -> [ValueError |-> FALSE, n |-> 2]
      [] text = " 7 " -> [ValueError |-> FALSE, n |-> 7]
      [] text = "-5" -> [ValueError |-> FALSE, n |-> -5]
      [] text = "0" -> [ValueError |-> FALSE, n |-> 0]
      [] OTHER -> [ValueError |-> TRUE, n |-> 0]

_log_interaction(a, token_entry, msg_entry) ==
    IF IntOf(token_entry).ValueError \/ IntOf(msg_entry).ValueError THEN a
    ELSE IF IntOf(token_entry).n < 0 \/ IntOf(msg_entry).n < 0 THEN a
    ELSE save_data(Logged([a EXCEPT !.session_messages = @ + IntOf(msg_entry).n,
                                    !.session_tokens = @ + IntOf(token_entry).n,
                                    !.data.daily = AddToDay(@, Today(a), IntOf(msg_entry).n,
                                                            IntOf(token_entry).n, 0)],
                          IntOf(msg_entry).n, IntOf(token_entry).n))

\* The user confirmed: the data and what was logged are wiped.
_clear_history(a) ==
    _reset_session(save_data([a EXCEPT !.data = DEFAULT_DATA, !.logged = <<>>]))

_on_close(a, save) == IF a.session_active /\ save THEN _end_session(a) ELSE a

\* ---- bounds and sample inputs of the dashboard specification ----

\* Operations of the user in one run of the dashboard.
MaxOps == 4

\* The quick-add buttons: Short chat, Medium, Long session.
QuickAdds == {<<2, 500>>, <<6, 2000>>, <<20, 8000>>}

\* Time that passes between two operations: half a minute, a day.
Waits == {30, DAY}

InitDash ==
    /\ game = NewDashboard(20000 * DAY + 43200)
    /\ pc = "mainloop"
    /\ dt = 0
    /\ ticks = 0

Op(a) ==
    /\ pc = "mainloop"
    /\ ticks < MaxOps
    /\ game' = a
    /\ ticks' = ticks + 1
    /\ UNCHANGED <<pc, dt>>

ToggleSession == Op(_toggle_session(game))

ResetSession == Op(_reset_session(game))

LogInteraction == \E t \in Entries : \E m \in Entries : Op(_log_interaction(game, t, m))

QuickLog == \E q \in QuickAdds : Op(_quick_log(game, q[1], q[2]))

ClearHistory == Op(_clear_history(game))

OnClose ==
    /\ pc = "mainloop"
    /\ \E save \in BOOLEAN : game' = _on_close(game, save)
    /\ pc' = "destroyed"
    /\ UNCHANGED <<dt, ticks>>

\* The clock of the machine goes on between two operations.
Wait ==
    /\ pc = "mainloop"
    /\ ticks < MaxOps
    /\ \E w \in Waits :
          /\ game' = [game EXCEPT !.now = @ + w]
          /\ dt' = w
    /\ ticks' = ticks + 1
    /\ UNCHANGED pc

NextDash ==
    \/ ToggleSession
    \/ ResetSession
    \/ LogInteraction
    \/ QuickLog
    \/ ClearHistory
    \/ OnClose
    \/ Wait

SpecDash == InitDash /\ [][NextDash]_vars

\* ---- C30 ----

\* C30: for every day the stored daily message and token totals equal the
\* sum of the amounts logged on that day through the log form or the
\* quick-log buttons; each logged amount is counted exactly once.
C30_DailyTotalsAreLogged ==
    pc \in {"mainloop", "destroyed"} =>
        \A d \in {game.data.daily[i].date : i \in 1..Len(game.data.daily)}
                 \cup {game.logged[i].date : i \in 1..Len(game.logged)} :
            LET stored == AddToDay(game.data.daily, d, 0, 0, 0)
                logged == AddToDay(game.logged, d, 0, 0, 0)
            IN  /\ stored[DayIndex(stored, d)].messages = logged[DayIndex(logged, d)].messages
                /\ stored[DayIndex(stored, d)].tokens = logged[DayIndex(logged, d)].tokens

\* ---- C24 ----

\* C24: an enemy whose hp has dropped to <= 0 has no further effect: it
\* deals no touch damage, fires no projectile, gives no aura to another enemy
\* and takes no hit off a projectile.
C24_DeadHaveNoEffect == pc \notin {"run", "mainloop", "destroyed"} => game.posthumous = {}

\* ---- C25 ----

\* C25: at every tick boundary the player's centre lies on a FLOOR tile.
C25_PlayerOnFloor == pc = "tick" => ~is_solid_at_px(game.dungeon, game.player.pos)

\* ---- C26 ----

\* C26: when loading the save fails, the game is exactly a fresh new game:
\* level, biome, wave, kill counter, dungeon and player are those of a new
\* game of the difficulty then chosen, nothing of the file is left in them.
C26_FailedLoadIsFresh ==
    [][pc = "quit" /\ game'.load_failed =>
          \E feat \in DungeonFeatures :
              LET fresh == NewGame(game'.difficulty_name, feat)
              IN  /\ game'.current_level = fresh.current_level
                  /\ game'.current_biome = fresh.current_biome
                  /\ game'.wave = fresh.wave
                  /\ game'.kills = fresh.kills
                  /\ game'.dungeon = fresh.dungeon
                  /\ game'.player = fresh.player]_vars

\* ---- C27 ----

\* The number of enemies of a list whose alive flag is set.
Living(es) == Count(es, LAMBDA e : e.alive)

\* C27: each enemy's death is processed at most once: on_enemy_dead, which
\* counts the kill and grants the XP, has run at most once for every enemy
\* of the list, and a step of update_enemies or update_projectiles raises the
\* kill counter by no more than the number of enemies that stopped being
\* alive in it, however often they were hit at hp <= 0.
C27_DeathProcessedOnce ==
    [][(pc = "update_enemies" \/ pc = "update_projectiles") =>
          /\ \A i \in 1..Len(game'.enemies) : game'.enemies[i].dead_count <= 1
          /\ game'.kills - game.kills <= Living(game.enemies) - Living(game'.enemies)]_vars

\* Two enemies were taken to hp <= 0 by a lightning arrow and its chain, one
\* of them was hit again by a second arrow, the crate the first arrow broke
\* exploded on both in the same frame, and each has been processed once.
C27_Witness ==
    /\ pc = "update_loot" /\ ticks = 1
    /\ "pierce" \in game.posthumous
    /\ \E c \in 1..Len(game.crates) : ~game.crates[c].alive
    /\ Count(game.enemies, LAMBDA e : e.dead_count = 1 /\ e.hp <= 0) >= 2
    /\ game.kills = 2

\* ---- C28 ----

\* The weapon w is equipped or lies in the inventory.
Held(g, w) ==
    \/ g.player.weapon = w
    \/ \E k \in 1..Len(g.player.inventory) : g.player.inventory[k] = w

\* The loots with a weapon within the pickup distance of the player.
WeaponsInReach(g) ==
    {i \in 1..Len(g.loots) :
        g.loots[i].weapon # <<>> /\ Dist(g.loots[i].pos, g.player.pos) < 24}

\* C28: picking up a weapon loot destroys no weapon: after an update_loot
\* that picks up one weapon loot, the looted weapon and the weapon equipped
\* before are each equipped or in the inventory, whatever the inventory's
\* fill level.
C28_PickupKeepsWeapons ==
    [][pc = "update_loot" /\ Cardinality(WeaponsInReach(game)) = 1 =>
          \A i \in WeaponsInReach(game) :
              /\ Held(game', game.loots[i].weapon[1])
              /\ Held(game', game.player.weapon)]_vars

====
